---- MODULE Spec2Model ----
(***************************************************************************)
(* Model of todo/utils.py: the Calculator operations, the expression       *)
(* evaluator calculate_expression and format_calculation_result.           *)
(*                                                                         *)
(* A string is a sequence of one-character strings.  A Python number is a  *)
(* record [t, n, d]: t is the Python type ("int" or "float") and n/d is    *)
(* its value as a fraction in lowest terms with d > 0.  A float is         *)
(* modelled by the exact rational value of the real-number operation, so   *)
(* binary rounding error is outside the model.  Results that are not       *)
(* rational (an irrational root), that are complex, or whose numerator or  *)
(* denominator exceeds MaxAbs are reported as "Unmodelled", and inputs     *)
(* that lead there are left out of the initial states.                     *)
(***************************************************************************)
EXTENDS Integers, Sequences, FiniteSets, TLC

\* ------------------------------------------------------------------ bounds
MaxLen == 3          \* longest input string drawn from InputChars
MaxTok == 7          \* most tokens in a generated well-formed expression
MaxNum == 3          \* largest |numerator| of a Calculator / formatter argument
MaxFracBits == 2     \* formatter / Calculator floats are n / 2^k, k <= MaxFracBits
MaxPlaces == 2       \* largest decimal_places
MaxAbs == 30000      \* largest |numerator| and denominator the model computes

\* ------------------------------------------------------------- characters
Digits == {"0", "1", "2", "3", "4", "5", "6", "7", "8", "9"}

allowed_chars == Digits \cup {"+", "-", "*", "/", ".", "(", ")", "^"}

\* the characters inputs are drawn from: allowed ones, a space, a tab, a
\* letter
InputChars == {"0", "1", "+", "-", "*", "/", ".", "(", ")", "^", " ", "\t", "a"}

DigitVal(c) ==
  CASE c = "0" -> 0 [] c = "1" -> 1 [] c = "2" -> 2 [] c = "3" -> 3
    [] c = "4" -> 4 [] c = "5" -> 5 [] c = "6" -> 6 [] c = "7" -> 7
    [] c = "8" -> 8 [] c = "9" -> 9

DigitChar(k) ==
  CASE k = 0 -> "0" [] k = 1 -> "1" [] k = 2 -> "2" [] k = 3 -> "3"
    [] k = 4 -> "4" [] k = 5 -> "5" [] k = 6 -> "6" [] k = 7 -> "7"
    [] k = 8 -> "8" [] k = 9 -> "9"

\* ------------------------------------------------------- numbers (values)
Abs(x) == IF x < 0 THEN -x ELSE x

RECURSIVE GCD(_, _)
GCD(x, y) == IF y = 0 THEN x ELSE GCD(y, x % y)

\* n/d in lowest terms with a positive denominator (d # 0)
Frac(t, n, d) ==
  LET g == GCD(Abs(n), Abs(d))
      s == IF d < 0 THEN -1 ELSE 1
  IN  [t |-> t, n |-> (s * n) \div g, d |-> (s * d) \div g]

MkInt(n) == [t |-> "int", n |-> n, d |-> 1]
MkFloat(n, d) == Frac("float", n, d)
EmptyTuple == [t |-> "tuple", n |-> 0, d |-> 1]
EllipsisValue == [t |-> "ellipsis", n |-> 0, d |-> 1]
ComplexValue == [t |-> "complex", n |-> 0, d |-> 1]

IsNumber(v) == v.t \in {"int", "float"}

\* outcome of one interpreter operation: a value or a raised exception
\* (call: whether a call instruction was executed on the way)
Ok(v) == [exc |-> "none", val |-> v, call |-> FALSE]
Exc(e) == [exc |-> e, val |-> MkInt(0), call |-> FALSE]

\* a result is kept only while it fits the model
Fit(v) == IF Abs(v.n) > MaxAbs \/ v.d > MaxAbs THEN Exc("Unmodelled") ELSE Ok(v)

ResType(x, y) == IF x.t = "int" /\ y.t = "int" THEN "int" ELSE "float"

\* acc * base^k for k >= 0 and |base| >= 2, stopping once the magnitude
\* leaves the model
RECURSIVE PowAcc(_, _, _)
PowAcc(base, k, acc) ==
  IF k = 0 \/ Abs(acc) > MaxAbs THEN acc ELSE PowAcc(base, k - 1, acc * base)

\* base^k for k >= 0 (a value above MaxAbs stands for any larger one)
IPow(base, k) ==
  IF k = 0 THEN 1
  ELSE IF base \in {0, 1} THEN base
  ELSE IF base = -1 THEN (IF k % 2 = 0 THEN 1 ELSE -1)
  ELSE PowAcc(base, k, 1)

\* the r >= 0 with r^q = m, or -1 when m is not a perfect q-th power
IntRoot(m, q) ==
  LET S == {r \in 0..m : IPow(r, q) = m}
  IN  IF S = {} THEN -1 ELSE CHOOSE r \in S : TRUE

\* x + y, x - y, x * y of Python numbers
PyAdd(x, y) == Fit(Frac(ResType(x, y), x.n * y.d + y.n * x.d, x.d * y.d))
PySub(x, y) == Fit(Frac(ResType(x, y), x.n * y.d - y.n * x.d, x.d * y.d))
PyMul(x, y) == Fit(Frac(ResType(x, y), x.n * y.n, x.d * y.d))

\* x / y: true division, always a float
PyTrueDiv(x, y) ==
  IF y.n = 0 THEN Exc("ZeroDivisionError")
  ELSE Fit(MkFloat(x.n * y.d, x.d * y.n))

\* x // y: floor division
PyFloorDiv(x, y) ==
  IF y.n = 0 THEN Exc("ZeroDivisionError")
  ELSE LET q == Frac("float", x.n * y.d, x.d * y.n)
       IN  Fit([t |-> ResType(x, y), n |-> q.n \div q.d, d |-> 1])

\* x % y: the remainder has the sign of the divisor
PyMod(x, y) ==
  IF y.n = 0 THEN Exc("ZeroDivisionError")
  ELSE LET q == Frac("float", x.n * y.d, x.d * y.n)
           fl == q.n \div q.d
       IN  Fit(Frac(ResType(x, y), x.n * y.d - fl * y.n * x.d, x.d * y.d))

\* (n/d)^k as a float for k >= 0
PowFrac(n, d, k) ==
  IF Abs(IPow(n, k)) > MaxAbs \/ Abs(IPow(d, k)) > MaxAbs
  THEN Exc("Unmodelled")
  ELSE Ok(MkFloat(IPow(n, k), IPow(d, k)))

\* x ** y
PyPow(x, y) ==
  IF x.t = "int" /\ y.t = "int" /\ y.n >= 0
  THEN Fit(MkInt(IPow(x.n, y.n)))
  ELSE IF x.n = 0 /\ y.n < 0 THEN Exc("ZeroDivisionError")
  ELSE IF y.d = 1
  THEN IF y.n >= 0 THEN PowFrac(x.n, x.d, y.n) ELSE PowFrac(x.d, x.n, -y.n)
  ELSE IF x.n = 0 THEN Ok(MkFloat(0, 1))
  ELSE IF x.n < 0 THEN Ok(ComplexValue)
  ELSE LET rn == IntRoot(x.n, y.d)
           rd == IntRoot(x.d, y.d)
       IN  IF rn < 0 \/ rd < 0 THEN Exc("Unmodelled")
           ELSE IF y.n > 0 THEN PowFrac(rn, rd, y.n)
           ELSE PowFrac(rd, rn, -y.n)

PyNeg(x) == Ok([x EXCEPT !.n = -x.n])
PyPos(x) == Ok(x)

\* ------------------------------------------------ calculate_expression
\* str.replace(" ", ""): drops every space character and nothing else
RECURSIVE RemoveSpaces(_)
RemoveSpaces(s) ==
  IF s = <<>> THEN <<>>
  ELSE IF Head(s) = " " THEN RemoveSpaces(Tail(s))
  ELSE <<Head(s)>> \o RemoveSpaces(Tail(s))

\* variant: any(...) in place of all(...)
AnyAllowed(s) == \E i \in 1..Len(s) : s[i] \in allowed_chars

\* all(char in allowed_chars for char in expression)
AllAllowed(s) == \A i \in 1..Len(s) : s[i] \in allowed_chars

\* str.replace("^", "**")
RECURSIVE ReplaceCaret(_)
ReplaceCaret(s) ==
  IF s = <<>> THEN <<>>
  ELSE IF Head(s) = "^" THEN <<"*", "*">> \o ReplaceCaret(Tail(s))
  ELSE <<Head(s)>> \o ReplaceCaret(Tail(s))

\* ---- eval(), step 1: the tokenizer of the interpreter
At(s, i) == IF i >= 1 /\ i <= Len(s) THEN s[i] ELSE "EOF"

\* first position at or after i that holds no digit
RECURSIVE DigitsEnd(_, _)
DigitsEnd(s, i) == IF At(s, i) \in Digits THEN DigitsEnd(s, i + 1) ELSE i

\* value of the digits s[i..j-1], saturating above MaxAbs
RECURSIVE DigitsValue(_, _, _)
DigitsValue(s, i, j) ==
  IF j <= i THEN 0
  ELSE LET r == DigitsValue(s, i, j - 1)
       IN  IF r > MaxAbs THEN r ELSE 10 * r + DigitVal(s[j - 1])

NumTok(v) == [k |-> "num", op |-> "", val |-> v]
OpTok(o) == [k |-> "op", op |-> o, val |-> MkInt(0)]
ErrTok(e) == [k |-> e, op |-> "", val |-> MkInt(0)]

\* the number literal that starts at i: << token, next position >>.
\* digits ['.' digits] or '.' digits; an integer literal with a leading
\* zero must be all zeros.
ScanNumber(s, i) ==
  LET ie == DigitsEnd(s, i)
      isFloat == At(s, ie) = "."
      fe == IF isFloat THEN DigitsEnd(s, ie + 1) ELSE ie
      ip == DigitsValue(s, i, ie)
      fp == DigitsValue(s, ie + 1, fe)
      sc == IPow(10, fe - ie - 1)
  IN  IF isFloat
      THEN IF ip > MaxAbs \/ fp > MaxAbs \/ sc > MaxAbs \/ ip * sc + fp > MaxAbs
           THEN << ErrTok("unmodelled"), fe >>
           ELSE << NumTok(MkFloat(ip * sc + fp, sc)), fe >>
      ELSE IF ip > MaxAbs THEN << ErrTok("unmodelled"), ie >>
      ELSE IF At(s, i) = "0" /\ ip # 0 THEN << ErrTok("error"), ie >>
      ELSE << NumTok(MkInt(ip)), ie >>

\* the token sequence of s from position i on; an "error" token stands for
\* a character the tokenizer rejects
RECURSIVE Tokenize(_, _)
Tokenize(s, i) ==
  IF i > Len(s) THEN <<>>
  ELSE LET c == s[i]
           n == At(s, i + 1)
       IN  IF c \in Digits \/ (c = "." /\ n \in Digits)
           THEN LET r == ScanNumber(s, i) IN << r[1] >> \o Tokenize(s, r[2])
           ELSE IF c = "." /\ n = "." /\ At(s, i + 2) = "."
           THEN << OpTok("...") >> \o Tokenize(s, i + 3)
           ELSE IF c = "*" /\ n = "*"
           THEN << OpTok("**") >> \o Tokenize(s, i + 2)
           ELSE IF c = "/" /\ n = "/"
           THEN << OpTok("//") >> \o Tokenize(s, i + 2)
           ELSE IF c \in {"+", "-", "*", "/", ".", "(", ")"}
           THEN << OpTok(c) >> \o Tokenize(s, i + 1)
           ELSE << ErrTok("error") >> \o Tokenize(s, i + 1)

\* ---- eval(), step 2: the expression grammar of the interpreter, as far as
\* the allowed characters reach it:
\*   sum:     term (('+' | '-') term)*
\*   term:    factor (('*' | '/' | '//') factor)*
\*   factor:  ('+' | '-') factor | power
\*   power:   primary ['**' factor]
\*   primary: atom ('(' [expression | '*' expression | '**' expression] ')')*
\*   atom:    NUMBER | '...' | '(' ')' | '(' expression ')'
ConstNode(v) == [nt |-> "const", val |-> v]
UnNode(o, e) == [nt |-> "un", op |-> o, e |-> e]
BinNode(o, l, r) == [nt |-> "bin", op |-> o, l |-> l, r |-> r]
CallNode(f, k, a) == [nt |-> "call", f |-> f, argk |-> k, arg |-> a]

Parsed(node, pos) == [ok |-> TRUE, node |-> node, pos |-> pos]
Fail == [ok |-> FALSE, node |-> ConstNode(MkInt(0)), pos |-> 0]

IsOp(ts, p, o) == p >= 1 /\ p <= Len(ts) /\ ts[p].k = "op" /\ ts[p].op = o
IsNum(ts, p) == p >= 1 /\ p <= Len(ts) /\ ts[p].k = "num"

\* variant: + and - read at the level of * and /, i.e. no precedence
IsTermOpFlat(ts, p) ==
  IsOp(ts, p, "*") \/ IsOp(ts, p, "/") \/ IsOp(ts, p, "//")
    \/ IsOp(ts, p, "+") \/ IsOp(ts, p, "-")

\* the operators of the rule term
IsTermOp(ts, p) == IsOp(ts, p, "*") \/ IsOp(ts, p, "/") \/ IsOp(ts, p, "//")

\* the operators of the rule sum
IsSumOp(ts, p) == IsOp(ts, p, "+") \/ IsOp(ts, p, "-")

\* Parse(rule, ts, p, left, k): the grammar rule `rule` applied to the tokens
\* ts from position p on.  left is the operand or callee already parsed (for
\* the rules that continue one) and k the kind of call argument.
RECURSIVE Parse(_, _, _, _, _)
Parse(rule, ts, p, left, k) ==
  CASE rule = "atom" ->
         IF IsNum(ts, p) THEN Parsed(ConstNode(ts[p].val), p + 1)
         ELSE IF IsOp(ts, p, "...") THEN Parsed(ConstNode(EllipsisValue), p + 1)
         ELSE IF IsOp(ts, p, "(")
         THEN IF IsOp(ts, p + 1, ")") THEN Parsed(ConstNode(EmptyTuple), p + 2)
              ELSE LET e == Parse("sum", ts, p + 1, left, k)
                   IN  IF e.ok /\ IsOp(ts, e.pos, ")")
                       THEN Parsed(e.node, e.pos + 1)
                       ELSE Fail
         ELSE Fail
    \* the single argument of a call, then the closing ')'
    [] rule = "callarg" ->
         LET e == Parse("sum", ts, p, left, k)
         IN  IF e.ok /\ IsOp(ts, e.pos, ")")
             THEN Parse("trailers", ts, e.pos + 1, CallNode(left, k, e.node), k)
             ELSE Fail
    [] rule = "trailers" ->
         IF ~IsOp(ts, p, "(") THEN Parsed(left, p)
         ELSE IF IsOp(ts, p + 1, ")")
         THEN Parse("trailers", ts, p + 2,
                    CallNode(left, "none", ConstNode(MkInt(0))), k)
         ELSE IF IsOp(ts, p + 1, "*") THEN Parse("callarg", ts, p + 2, left, "star")
         ELSE IF IsOp(ts, p + 1, "**") THEN Parse("callarg", ts, p + 2, left, "dstar")
         ELSE Parse("callarg", ts, p + 1, left, "pos")
    [] rule = "primary" ->
         LET a == Parse("atom", ts, p, left, k)
         IN  IF a.ok THEN Parse("trailers", ts, a.pos, a.node, k) ELSE Fail
    [] rule = "power" ->
         LET b == Parse("primary", ts, p, left, k)
         IN  IF ~b.ok THEN Fail
             ELSE IF IsOp(ts, b.pos, "**")
             THEN LET e == Parse("factor", ts, b.pos + 1, left, k)
                  IN  IF e.ok THEN Parsed(BinNode("**", b.node, e.node), e.pos)
                      ELSE Fail
             ELSE b
    [] rule = "factor" ->
         IF IsOp(ts, p, "+") \/ IsOp(ts, p, "-")
         THEN LET e == Parse("factor", ts, p + 1, left, k)
              IN  IF e.ok THEN Parsed(UnNode(ts[p].op, e.node), e.pos) ELSE Fail
         ELSE Parse("power", ts, p, left, k)
    [] rule = "term_rest" ->
         IF IsTermOp(ts, p)
         THEN LET f == Parse("factor", ts, p + 1, left, k)
              IN  IF f.ok
                  THEN Parse("term_rest", ts, f.pos,
                             BinNode(ts[p].op, left, f.node), k)
                  ELSE Fail
         ELSE Parsed(left, p)
    [] rule = "term" ->
         LET f == Parse("factor", ts, p, left, k)
         IN  IF f.ok THEN Parse("term_rest", ts, f.pos, f.node, k) ELSE Fail
    [] rule = "sum_rest" ->
         IF IsSumOp(ts, p)
         THEN LET t == Parse("term", ts, p + 1, left, k)
              IN  IF t.ok
                  THEN Parse("sum_rest", ts, t.pos,
                             BinNode(ts[p].op, left, t.node), k)
                  ELSE Fail
         ELSE Parsed(left, p)
    [] rule = "sum" ->
         LET t == Parse("term", ts, p, left, k)
         IN  IF t.ok THEN Parse("sum_rest", ts, t.pos, t.node, k) ELSE Fail

\* variant: an expression followed by anything is accepted
ParsePrefix(ts) == Parse("sum", ts, 1, ConstNode(MkInt(0)), "none")

\* the whole token sequence as one expression
ParseExpression(ts) ==
  LET e == Parse("sum", ts, 1, ConstNode(MkInt(0)), "none")
  IN  IF e.ok /\ e.pos = Len(ts) + 1 THEN e ELSE Fail

\* ---- eval(), step 3: evaluation of the tree, operands left to right
UnaryOp(o, x) ==
  IF IsNumber(x) THEN (IF o = "-" THEN PyNeg(x) ELSE PyPos(x))
  ELSE IF x.t = "complex" THEN Ok(ComplexValue)
  ELSE Exc("TypeError")

BinaryOp(o, x, y) ==
  IF IsNumber(x) /\ IsNumber(y)
  THEN CASE o = "+" -> PyAdd(x, y)
         [] o = "-" -> PySub(x, y)
         [] o = "*" -> PyMul(x, y)
         [] o = "/" -> PyTrueDiv(x, y)
         [] o = "//" -> PyFloorDiv(x, y)
         [] o = "**" -> PyPow(x, y)
  ELSE IF o = "+" /\ x.t = "tuple" /\ y.t = "tuple" THEN Ok(EmptyTuple)
  ELSE IF o = "*" /\ {x.t, y.t} = {"tuple", "int"} THEN Ok(EmptyTuple)
  ELSE IF {x.t, y.t} \subseteq {"int", "float", "complex"}
  THEN IF o = "//" THEN Exc("TypeError")
       ELSE IF o = "/" /\ IsNumber(y) /\ y.n = 0 THEN Exc("ZeroDivisionError")
       ELSE Exc("Unmodelled")
  ELSE Exc("TypeError")

RECURSIVE Evaluate(_)
Evaluate(node) ==
  CASE node.nt = "const" -> Ok(node.val)
    [] node.nt = "un" ->
         LET e == Evaluate(node.e)
         IN  IF e.exc # "none" THEN e
             ELSE [UnaryOp(node.op, e.val) EXCEPT !.call = e.call]
    [] node.nt = "bin" ->
         LET l == Evaluate(node.l)
         IN  IF l.exc # "none" THEN l
             ELSE LET r == Evaluate(node.r)
                  IN  IF r.exc # "none" THEN [r EXCEPT !.call = l.call \/ r.call]
                      ELSE [BinaryOp(node.op, l.val, r.val)
                              EXCEPT !.call = l.call \/ r.call]
    [] node.nt = "call" ->
         LET f == Evaluate(node.f)
             a == IF node.argk = "none" THEN Ok(MkInt(0)) ELSE Evaluate(node.arg)
         IN  IF f.exc # "none" THEN f
             ELSE IF a.exc # "none" THEN [a EXCEPT !.call = f.call \/ a.call]
             ELSE IF node.argk = "dstar"
                     \/ (node.argk = "star" /\ a.val.t # "tuple")
             THEN [Exc("TypeError") EXCEPT !.call = f.call \/ a.call]
             \* no value of the model is callable
             ELSE [Exc("TypeError") EXCEPT !.call = TRUE]

\* eval(expression, {"__builtins__": {}}, {})
PyEval(s) ==
  LET ts == Tokenize(s, 1)
      tree == ParseExpression(ts)
  IN  IF \E i \in 1..Len(ts) : ts[i].k = "unmodelled" THEN Exc("Unmodelled")
      ELSE IF ~tree.ok THEN Exc("SyntaxError")
      ELSE Evaluate(tree.node)

\* what a call returns or raises
Return(v) == [kind |-> "return", val |-> v, exc |-> "", msg |-> "", cause |-> ""]
Raise(e, m, c) == [kind |-> "raise", val |-> <<>>, exc |-> e, msg |-> m, cause |-> c]
Unmodelled == [kind |-> "unmodelled", val |-> <<>>, exc |-> "", msg |-> "", cause |-> ""]
NoOutcome == [kind |-> "none", val |-> <<>>, exc |-> "", msg |-> "", cause |-> ""]

\* variant: without the except ZeroDivisionError clause
HandleEvalGeneric(r) ==
  IF r.exc = "none" THEN Return(r.val)
  ELSE IF r.exc = "Unmodelled" THEN Unmodelled
  ELSE Raise("ValueError", "Invalid expression: ", r.exc)

\* the try / except around eval: ZeroDivisionError first, then Exception
HandleEval(r) ==
  IF r.exc = "none" THEN Return(r.val)
  ELSE IF r.exc = "Unmodelled" THEN Unmodelled
  ELSE IF r.exc = "ZeroDivisionError"
  THEN Raise("ValueError", "Division by zero", r.exc)
  ELSE Raise("ValueError", "Invalid expression: ", r.exc)

\* calculate_expression as a whole
calculate_expression(expression) ==
  LET stripped == RemoveSpaces(expression)
  IN  IF ~AllAllowed(stripped)
      THEN Raise("ValueError", "Invalid characters in expression", "")
      ELSE HandleEval(PyEval(ReplaceCaret(stripped)))

\* --------------------------------------------- format_calculation_result
RECURSIVE NatToStr(_)
NatToStr(n) ==
  IF n < 10 THEN << DigitChar(n) >>
  ELSE NatToStr(n \div 10) \o << DigitChar(n % 10) >>

\* variant: str(result) of an integral float, with its ".0"
StrOfFloat(n) ==
  (IF n < 0 THEN << "-" >> \o NatToStr(-n) ELSE NatToStr(n)) \o << ".", "0" >>

\* str(int(result)) for an integral result
IntToStr(n) == IF n < 0 THEN << "-" >> \o NatToStr(-n) ELSE NatToStr(n)

\* the k low decimal digits of n, zero padded
RECURSIVE PadDigits(_, _)
PadDigits(n, k) ==
  IF k = 0 THEN <<>>
  ELSE PadDigits(n \div 10, k - 1) \o << DigitChar(n % 10) >>

\* variant: the digits are cut, not rounded
Truncate(n, d, p) == (Abs(n) * IPow(10, p)) \div d

\* |n| / d in units of 10^-p, correctly rounded, ties to even
RoundHalfEven(n, d, p) ==
  LET scaled == Abs(n) * IPow(10, p)
      q == scaled \div d
      r == scaled % d
  IN  IF 2 * r > d \/ (2 * r = d /\ q % 2 = 1) THEN q + 1 ELSE q

\* f"{result:.{decimal_places}f}"
FixedFormat(x, p) ==
  LET q == RoundHalfEven(x.n, x.d, p)
      unit == IPow(10, p)
  IN  (IF x.n < 0 THEN << "-" >> ELSE <<>>)
      \o NatToStr(q \div unit)
      \o (IF p > 0 THEN << "." >> \o PadDigits(q % unit, p) ELSE <<>>)

\* variant: without result.is_integer()
IsIntInstance(x) == x.t = "int"

\* isinstance(result, int) or result.is_integer()
IsIntegerResult(x) == x.t = "int" \/ x.d = 1

\* a str as the argument result: isinstance(result, int) is False and str
\* has no method is_integer
StrValue(s) == [t |-> "str", n |-> 0, d |-> 1, s |-> s]

format_calculation_result(result, decimal_places) ==
  IF result.t = "str"
  THEN Raise("AttributeError", "'str' object has no attribute 'is_integer'", "")
  ELSE IF IsIntegerResult(result) THEN Return(IntToStr(result.n))
  ELSE Return(FixedFormat(result, decimal_places))

\* ------------------------------------------------------------ Calculator
FromOp(r) ==
  IF r.exc = "none" THEN Return(r.val)
  ELSE IF r.exc = "Unmodelled" THEN Unmodelled
  ELSE Raise(r.exc, "", "")

add(a, b) == FromOp(PyAdd(a, b))

\* variant: the operands of subtract exchanged
SubtractSwapped(a, b) == FromOp(PySub(b, a))

subtract(a, b) == FromOp(PySub(a, b))

multiply(a, b) == FromOp(PyMul(a, b))

\* variant: divide without its guard
DivideUnguarded(a, b) == FromOp(PyTrueDiv(a, b))

divide(a, b) ==
  IF b.n = 0 THEN Raise("ValueError", "Cannot divide by zero", "")
  ELSE FromOp(PyTrueDiv(a, b))

power(a, b) == FromOp(PyPow(a, b))

modulo(a, b) ==
  IF b.n = 0 THEN Raise("ValueError", "Cannot perform modulo with zero", "")
  ELSE FromOp(PyMod(a, b))

square_root(a) ==
  IF a.n < 0
  THEN Raise("ValueError", "Cannot calculate square root of negative number", "")
  ELSE FromOp(PyPow(a, MkFloat(1, 2)))

\* ----------------------------------------------------------------- inputs
\* ints and floats n / 2^k (floats of this form are exact in binary)
Numbers ==
  {MkInt(n) : n \in -MaxNum..MaxNum}
    \cup {MkFloat(n, IPow(2, k)) : n \in -MaxNum..MaxNum, k \in 0..MaxFracBits}

\* every string of at most MaxLen characters of InputChars
InputStrings == UNION {[1..k -> InputChars] : k \in 0..MaxLen}

GenLiterals == {"2", "3"}
GenOperators == {"+", "-", "*", "/", "^"}

\* the expressions of exactly n one-character tokens built from literals,
\* binary operators, unary minus and parentheses
WFE[n \in 0..MaxTok] ==
  IF n = 0 THEN {}
  ELSE IF n = 1 THEN {<< l >> : l \in GenLiterals}
  ELSE {<< "-" >> \o e : e \in WFE[n - 1]}
         \cup (IF n < 3 THEN {}
               ELSE {<< "(" >> \o e \o << ")" >> : e \in WFE[n - 2]}
                      \cup UNION {{l \o << o >> \o r :
                                     l \in WFE[i], r \in WFE[n - 1 - i],
                                     o \in GenOperators} : i \in 1..(n - 2)})

Generated == UNION {WFE[n] : n \in 1..MaxTok}

\* e with the character w inserted after position i
InsertAt(e, i, w) == SubSeq(e, 1, i) \o << w >> \o SubSeq(e, i + 1, Len(e))

\* the generated expressions of at most MaxLen tokens with one space or tab
\* inserted somewhere
Spaced ==
  UNION {{InsertAt(e, i, w) : i \in 0..Len(e), w \in {" ", "\t"}} :
           e \in UNION {WFE[n] : n \in 1..MaxLen}}

\* inputs that combine a disallowed character, a division by zero or an
\* operator the grammar does not have
MixedInputs ==
  { << "1", "/", "0", "+", "a" >>, << "a", "+", "1", "/", "0" >>,
    << "(", "1", "+", "a" >>, << "1", "/", "/", "1" >>, << "1", "*", "*", "1" >>,
    << "(", ")", "+", "(", ")" >> }

Expressions ==
  {e \in InputStrings \cup Generated \cup Spaced \cup MixedInputs :
     calculate_expression(e).kind # "unmodelled"}

NoArgs ==
  [expression |-> <<>>, result |-> MkInt(0), decimal_places |-> 0,
   a |-> MkInt(0), b |-> MkInt(0)]

BinaryOps == {"add", "subtract", "multiply", "divide", "power", "modulo"}

Apply(f, a, b) ==
  CASE f = "add" -> add(a, b)
    [] f = "subtract" -> subtract(a, b)
    [] f = "multiply" -> multiply(a, b)
    [] f = "divide" -> divide(a, b)
    [] f = "power" -> power(a, b)
    [] f = "modulo" -> modulo(a, b)
    [] f = "square_root" -> square_root(a)

\* ---------------------------------------------------------- state machine
\* the empty table todo_user: no row, no id handed out, clock at 0
EmptyDb == [rows |-> {}, seq |-> 0, clock |-> 0]

VARIABLES
  fn,          \* the function that is called
  args,        \* its arguments
  expression,  \* calculate_expression: the local variable expression
  pc,          \* position of the call: "call", "validate", "translate",
               \* "eval", "done"
  ret,         \* what the call returned or raised
  called,      \* whether eval executed a call instruction
  db,          \* the table todo_user and its id sequence
  prev,        \* db as it was when the last UserService / API call began
  threads      \* concurrent calls: for each thread its call, its position,
               \* its local variables and its outcome

vars == << fn, args, expression, pc, ret, called, db, prev, threads >>

Init ==
  /\ \/ /\ fn = "calculate_expression"
        /\ \E e \in Expressions : args = [NoArgs EXCEPT !.expression = e]
     \/ /\ fn = "format_calculation_result"
        /\ \E x \in Numbers, p \in 0..MaxPlaces :
             args = [NoArgs EXCEPT !.result = x, !.decimal_places = p]
     \/ /\ fn \in BinaryOps
        /\ \E x \in Numbers, y \in Numbers :
             /\ Apply(fn, x, y).kind # "unmodelled"
             /\ args = [NoArgs EXCEPT !.a = x, !.b = y]
     \/ /\ fn = "square_root"
        /\ \E x \in Numbers :
             /\ square_root(x).kind # "unmodelled"
             /\ args = [NoArgs EXCEPT !.a = x]
  /\ expression = args.expression
  /\ pc = "call"
  /\ ret = NoOutcome
  /\ called = FALSE
  /\ db = EmptyDb
  /\ prev = EmptyDb
  /\ threads = << >>

\* line 69: expression = expression.replace(" ", "")
StripSpaces ==
  /\ fn = "calculate_expression" /\ pc = "call"
  /\ expression' = RemoveSpaces(expression)
  /\ pc' = "validate"
  /\ UNCHANGED << db, prev, threads, fn, args, ret, called >>

\* variant: the character check is left out
CheckCharsSkipped ==
  /\ fn = "calculate_expression" /\ pc = "validate"
  /\ pc' = "translate"
  /\ UNCHANGED << db, prev, threads, fn, args, expression, ret, called >>

\* lines 72-74: the character check
CheckChars ==
  /\ fn = "calculate_expression" /\ pc = "validate"
  /\ IF AllAllowed(expression)
     THEN pc' = "translate" /\ ret' = ret
     ELSE /\ pc' = "done"
          /\ ret' = Raise("ValueError", "Invalid characters in expression", "")
  /\ UNCHANGED << db, prev, threads, fn, args, expression, called >>

\* line 77: expression = expression.replace("^", "**")
TranslateCaret ==
  /\ fn = "calculate_expression" /\ pc = "translate"
  /\ expression' = ReplaceCaret(expression)
  /\ pc' = "eval"
  /\ UNCHANGED << db, prev, threads, fn, args, ret, called >>

\* lines 79-86: eval inside try / except
EvalExpression ==
  /\ fn = "calculate_expression" /\ pc = "eval"
  /\ LET r == PyEval(expression)
     IN  /\ ret' = HandleEval(r)
         /\ called' = r.call
  /\ pc' = "done"
  /\ UNCHANGED << db, prev, threads, fn, args, expression >>

FormatCalculationResult ==
  /\ fn = "format_calculation_result" /\ pc = "call"
  /\ ret' = format_calculation_result(args.result, args.decimal_places)
  /\ pc' = "done"
  /\ UNCHANGED << db, prev, threads, fn, args, expression, called >>

Add ==
  /\ fn = "add" /\ pc = "call"
  /\ ret' = add(args.a, args.b)
  /\ pc' = "done"
  /\ UNCHANGED << db, prev, threads, fn, args, expression, called >>

Subtract ==
  /\ fn = "subtract" /\ pc = "call"
  /\ ret' = subtract(args.a, args.b)
  /\ pc' = "done"
  /\ UNCHANGED << db, prev, threads, fn, args, expression, called >>

Multiply ==
  /\ fn = "multiply" /\ pc = "call"
  /\ ret' = multiply(args.a, args.b)
  /\ pc' = "done"
  /\ UNCHANGED << db, prev, threads, fn, args, expression, called >>

Divide ==
  /\ fn = "divide" /\ pc = "call"
  /\ ret' = divide(args.a, args.b)
  /\ pc' = "done"
  /\ UNCHANGED << db, prev, threads, fn, args, expression, called >>

Power ==
  /\ fn = "power" /\ pc = "call"
  /\ ret' = power(args.a, args.b)
  /\ pc' = "done"
  /\ UNCHANGED << db, prev, threads, fn, args, expression, called >>

Modulo ==
  /\ fn = "modulo" /\ pc = "call"
  /\ ret' = modulo(args.a, args.b)
  /\ pc' = "done"
  /\ UNCHANGED << db, prev, threads, fn, args, expression, called >>

SquareRoot ==
  /\ fn = "square_root" /\ pc = "call"
  /\ ret' = square_root(args.a)
  /\ pc' = "done"
  /\ UNCHANGED << db, prev, threads, fn, args, expression, called >>

Next ==
  \/ StripSpaces
  \/ CheckChars
  \/ TranslateCaret
  \/ EvalExpression
  \/ FormatCalculationResult
  \/ Add
  \/ Subtract
  \/ Multiply
  \/ Divide
  \/ Power
  \/ Modulo
  \/ SquareRoot

Spec == Init /\ [][Next]_vars

\* ======================================================================
\* Reference semantics for the properties: standard arithmetic on rational
\* numbers, read off the text with the usual conventions.
\*   expr:  term (('+' | '-') term)*            left to right
\*   term:  unary (('*' | '/') unary)*          left to right
\*   unary: '-' unary | atom ['^' unary]        ^ binds tightest, right to left
\*   atom:  literal | '(' expr ')'
\* A literal is a decimal numeral, digits ['.' digits], whose integer part
\* has no superfluous leading zero ("0", "10", "0.5", not "01").
\* ======================================================================
Whitespace == {" ", "\t"}

WithoutSpaces(s) == SelectSeq(s, LAMBDA c : c # " ")
WithoutWhitespace(s) == SelectSeq(s, LAMBDA c : c \notin Whitespace)

\* a rational value n/d, or no value; dz: some division had a divisor equal
\* to zero
Q(n, d) == [def |-> TRUE, n |-> Frac("q", n, d).n, d |-> Frac("q", n, d).d, dz |-> FALSE]
NoValue(dz) == [def |-> FALSE, n |-> 0, d |-> 1, dz |-> dz]
InRange(v) == IF Abs(v.n) > MaxAbs \/ v.d > MaxAbs THEN NoValue(FALSE) ELSE v

StdPower(x, y) ==
  IF y.d # 1 THEN NoValue(FALSE)
  ELSE IF y.n >= 0
  THEN IF Abs(IPow(x.n, y.n)) > MaxAbs \/ IPow(x.d, y.n) > MaxAbs
       THEN NoValue(FALSE)
       ELSE Q(IPow(x.n, y.n), IPow(x.d, y.n))
  ELSE IF x.n = 0 THEN NoValue(FALSE)
  ELSE IF Abs(IPow(x.n, -y.n)) > MaxAbs \/ IPow(x.d, -y.n) > MaxAbs
  THEN NoValue(FALSE)
  ELSE Q(IPow(x.d, -y.n), IPow(x.n, -y.n))

StdBinary(o, x, y) ==
  LET dz == x.dz \/ y.dz \/ (o = "/" /\ y.def /\ y.n = 0)
      v == IF ~x.def \/ ~y.def THEN NoValue(FALSE)
           ELSE CASE o = "+" -> InRange(Q(x.n * y.d + y.n * x.d, x.d * y.d))
                  [] o = "-" -> InRange(Q(x.n * y.d - y.n * x.d, x.d * y.d))
                  [] o = "*" -> InRange(Q(x.n * y.n, x.d * y.d))
                  [] o = "/" -> IF y.n = 0 THEN NoValue(FALSE)
                                ELSE InRange(Q(x.n * y.d, x.d * y.n))
                  [] o = "^" -> StdPower(x, y)
  IN  [v EXCEPT !.dz = dz]

StdNegate(x) == [x EXCEPT !.n = -x.n]

\* the literal that starts at position i of s: << ok, value, next position >>
StdLiteral(s, i) ==
  LET ie == DigitsEnd(s, i)
      frac == At(s, ie) = "." /\ At(s, ie + 1) \in Digits
      fe == IF frac THEN DigitsEnd(s, ie + 1) ELSE ie
      ip == DigitsValue(s, i, ie)
      fp == DigitsValue(s, ie + 1, fe)
      sc == IPow(10, fe - ie - 1)
  IN  IF ie = i \/ (s[i] = "0" /\ ie > i + 1) THEN << FALSE, NoValue(FALSE), i >>
      ELSE IF ~frac THEN << ip <= MaxAbs, Q(ip, 1), ie >>
      ELSE << ip <= MaxAbs /\ fp <= MaxAbs /\ sc <= MaxAbs /\ ip * sc + fp <= MaxAbs,
              Q(ip * sc + fp, sc), fe >>

StdOk(v, pos) == [ok |-> TRUE, v |-> v, pos |-> pos]
StdFail == [ok |-> FALSE, v |-> NoValue(FALSE), pos |-> 0]

\* Std(rule, s, p, left): the rule applied to the characters of s from
\* position p on; left is the value read so far
RECURSIVE Std(_, _, _, _)
Std(rule, s, p, left) ==
  CASE rule = "atom" ->
         IF At(s, p) = "("
         THEN LET e == Std("expr", s, p + 1, left)
              IN  IF e.ok /\ At(s, e.pos) = ")" THEN StdOk(e.v, e.pos + 1)
                  ELSE StdFail
         ELSE LET l == StdLiteral(s, p)
              IN  IF l[1] THEN StdOk(l[2], l[3]) ELSE StdFail
    [] rule = "unary" ->
         IF At(s, p) = "-"
         THEN LET e == Std("unary", s, p + 1, left)
              IN  IF e.ok THEN StdOk(StdNegate(e.v), e.pos) ELSE StdFail
         ELSE LET b == Std("atom", s, p, left)
              IN  IF ~b.ok THEN StdFail
                  ELSE IF At(s, b.pos) = "^"
                  THEN LET e == Std("unary", s, b.pos + 1, left)
                       IN  IF e.ok THEN StdOk(StdBinary("^", b.v, e.v), e.pos)
                           ELSE StdFail
                  ELSE b
    [] rule = "term_rest" ->
         IF At(s, p) \in {"*", "/"}
         THEN LET f == Std("unary", s, p + 1, left)
              IN  IF f.ok
                  THEN Std("term_rest", s, f.pos, StdBinary(s[p], left, f.v))
                  ELSE StdFail
         ELSE StdOk(left, p)
    [] rule = "term" ->
         LET f == Std("unary", s, p, left)
         IN  IF f.ok THEN Std("term_rest", s, f.pos, f.v) ELSE StdFail
    [] rule = "expr_rest" ->
         IF At(s, p) \in {"+", "-"}
         THEN LET t == Std("term", s, p + 1, left)
              IN  IF t.ok
                  THEN Std("expr_rest", s, t.pos, StdBinary(s[p], left, t.v))
                  ELSE StdFail
         ELSE StdOk(left, p)
    [] rule = "expr" ->
         LET t == Std("term", s, p, left)
         IN  IF t.ok THEN Std("expr_rest", s, t.pos, t.v) ELSE StdFail

\* the reading of the whole string s: ok iff s is a well-formed expression
StdRead(s) ==
  LET e == Std("expr", s, 1, NoValue(FALSE))
  IN  IF e.ok /\ e.pos = Len(s) + 1 THEN e ELSE StdFail

WellFormed(s) == StdRead(s).ok

Finished(f) == fn = f /\ pc = "done"

Input == args.expression

\* ======================================================================
\* Properties
\* ======================================================================

\* C1: for every well-formed expression that has a value under standard
\* arithmetic precedence and associativity (^ tightest and right to left,
\* then unary minus, then * and /, then + and -, parentheses first, / real
\* division), calculate_expression returns a number equal to that value.
C1_StandardPrecedence ==
  Finished("calculate_expression") =>
    LET r == StdRead(WithoutSpaces(Input))
    IN  (r.ok /\ r.v.def) =>
          /\ ret.kind = "return"
          /\ IsNumber(ret.val)
          /\ ret.val.n = r.v.n
          /\ ret.val.d = r.v.d

\* "2+3*2" has been evaluated to 8, not to (2+3)*2 = 10
C1_Witness ==
  /\ Finished("calculate_expression")
  /\ Input = << "2", "+", "3", "*", "2" >>
  /\ ret.kind = "return"
  /\ ret.val = MkInt(8)

\* C2: when the divisor of some division of a well-formed expression is
\* exactly zero, calculate_expression raises ValueError("Division by zero").
C2_DivisionByZero ==
  Finished("calculate_expression") =>
    LET r == StdRead(WithoutSpaces(Input))
    IN  (r.ok /\ r.v.dz) =>
          /\ ret.kind = "raise"
          /\ ret.exc = "ValueError"
          /\ ret.msg = "Division by zero"

\* the divisor is a sub-expression: "2/(3-3)"
C2_Witness ==
  /\ Finished("calculate_expression")
  /\ Input = << "2", "/", "(", "3", "-", "3", ")" >>
  /\ ret.kind = "raise"
  /\ ret.msg = "Division by zero"

\* C3: an input that, whitespace aside, holds a character outside the
\* allowed set fails with ValueError("Invalid characters in expression").
HasDisallowed(s) == \E i \in 1..Len(s) : s[i] \notin allowed_chars \cup Whitespace

C3_DisallowedCharacter ==
  (Finished("calculate_expression") /\ HasDisallowed(Input)) =>
    /\ ret.kind = "raise"
    /\ ret.exc = "ValueError"
    /\ ret.msg = "Invalid characters in expression"

C3_Witness ==
  /\ Finished("calculate_expression")
  /\ Input = << "1", "+", "a" >>
  /\ ret.kind = "raise"
  /\ ret.msg = "Invalid characters in expression"

\* C4: no input makes calculate_expression perform a function call (nor a
\* name lookup, attribute access or statement): only arithmetic is evaluated.
C4_OnlyArithmetic == Finished("calculate_expression") => ~called

\* C5: for a well-formed expression, whitespace (spaces, tabs) between its
\* tokens does not change the outcome: the input gives what its
\* whitespace-free form gives.
LiteralChars == Digits \cup {"."}

\* no run of whitespace separates two characters of a literal
BetweenTokens(s) ==
  \A i, j \in 1..Len(s) :
    (/\ i + 1 < j
     /\ s[i] \in LiteralChars /\ s[j] \in LiteralChars
     /\ \A k \in (i + 1)..(j - 1) : s[k] \in Whitespace) => FALSE

C5_WhitespaceInsignificant ==
  Finished("calculate_expression") =>
    LET base == WithoutWhitespace(Input)
    IN  (WellFormed(base) /\ BetweenTokens(Input)) =>
          ret = calculate_expression(base)

\* C6: the empty string, a string of whitespace only and a syntactically
\* incomplete expression (trailing operator, unbalanced parentheses) fail
\* with the invalid-expression error, not with a value and not with the
\* division-by-zero error.
Blank(s) == \A i \in 1..Len(s) : s[i] \in Whitespace

Count(s, c) == Cardinality({i \in 1..Len(s) : s[i] = c})

Unbalanced(s) ==
  \/ Count(s, "(") # Count(s, ")")
  \/ \E k \in 1..Len(s) :
       Count(SubSeq(s, 1, k), ")") > Count(SubSeq(s, 1, k), "(")

TrailingOperator(s) ==
  s # <<>> /\ s[Len(s)] \in {"+", "-", "*", "/", "^"}

Incomplete(s) ==
  LET base == WithoutWhitespace(s)
  IN  TrailingOperator(base) \/ Unbalanced(base)

InvalidExpressionMessages ==
  {"Invalid characters in expression", "Invalid expression: "}

C6_EmptyOrIncomplete ==
  (Finished("calculate_expression") /\ (Blank(Input) \/ Incomplete(Input))) =>
    /\ ret.kind = "raise"
    /\ ret.exc = "ValueError"
    /\ ret.msg \in InvalidExpressionMessages

\* "1+" has been evaluated: an operator without its right operand
C6_Witness ==
  /\ Finished("calculate_expression")
  /\ Input = << "1", "+" >>
  /\ ret.kind = "raise"
  /\ ret.msg = "Invalid expression: "

\* C7: calculate_expression either returns an int or a float, or raises a
\* ValueError with a message; nothing else.
C7_NumberOrValueError ==
  Finished("calculate_expression") =>
    \/ ret.kind = "return" /\ ret.val.t \in {"int", "float"}
    \/ ret.kind = "raise" /\ ret.exc = "ValueError" /\ ret.msg # ""

\* C8: an integral result, int or float, is formatted for every
\* decimal_places as its integer numeral: a sign if negative, digits without
\* leading zero, no decimal point.
IsIntegral(x) == x.d = 1

RECURSIVE NumeralValue(_)
NumeralValue(s) ==
  IF s = <<>> THEN 0
  ELSE 10 * NumeralValue(SubSeq(s, 1, Len(s) - 1)) + DigitVal(s[Len(s)])

IsNatNumeral(s) ==
  /\ s # <<>>
  /\ \A i \in 1..Len(s) : s[i] \in Digits
  /\ (Len(s) > 1 => s[1] # "0")

IsIntNumeralOf(s, n) ==
  IF n < 0
  THEN /\ Len(s) > 1 /\ s[1] = "-"
       /\ IsNatNumeral(Tail(s)) /\ NumeralValue(Tail(s)) = -n
  ELSE IsNatNumeral(s) /\ NumeralValue(s) = n

C8_IntegerForm ==
  (Finished("format_calculation_result") /\ IsIntegral(args.result)) =>
    /\ ret.kind = "return"
    /\ IsIntNumeralOf(ret.val, args.result.n)

\* format(2.0, 1) = "2"
C8_Witness ==
  /\ Finished("format_calculation_result")
  /\ args.result = MkFloat(2, 1)
  /\ args.decimal_places = 1
  /\ ret.val = << "2" >>

\* C9: a result with a fractional part is formatted as [-]digits[.digits]
\* with exactly decimal_places digits after the point, a "-" exactly when
\* the result is negative, and a value within half a unit of the last place
\* of the result.
PointAt(s) == IF \E i \in 1..Len(s) : s[i] = "." 
              THEN CHOOSE i \in 1..Len(s) : s[i] = "." ELSE Len(s) + 1

Unsigned(s) == IF s # <<>> /\ s[1] = "-" THEN Tail(s) ELSE s

IsFixedOf(s, x, p) ==
  LET u == Unsigned(s)
      k == PointAt(u)
      whole == SubSeq(u, 1, k - 1)
      frac == SubSeq(u, k + 1, Len(u))
      q == NumeralValue(whole \o frac)
  IN  /\ (s # <<>> /\ s[1] = "-") <=> x.n < 0
      /\ IsNatNumeral(whole)
      /\ \A i \in 1..Len(frac) : frac[i] \in Digits
      /\ Len(frac) = p
      /\ (k <= Len(u)) <=> p > 0
      /\ 2 * Abs(q * x.d - Abs(x.n) * IPow(10, p)) <= x.d

C9_FixedPoint ==
  (Finished("format_calculation_result") /\ ~IsIntegral(args.result)) =>
    /\ ret.kind = "return"
    /\ IsFixedOf(ret.val, args.result, args.decimal_places)

\* format(-0.75, 1) = "-0.8"
C9_Witness ==
  /\ Finished("format_calculation_result")
  /\ args.result = MkFloat(-3, 4)
  /\ args.decimal_places = 1
  /\ ret.val = << "-", "0", ".", "8" >>

\* C10: divide and modulo with b == 0 and square_root with a < 0 return no
\* value and raise ValueError, each with its own message, for every a.
C10_GuardedOperations ==
  /\ (Finished("divide") /\ args.b.n = 0) =>
       ret = Raise("ValueError", "Cannot divide by zero", "")
  /\ (Finished("modulo") /\ args.b.n = 0) =>
       ret = Raise("ValueError", "Cannot perform modulo with zero", "")
  /\ (Finished("square_root") /\ args.a.n < 0) =>
       ret = Raise("ValueError", "Cannot calculate square root of negative number", "")

C10_Witness ==
  /\ Finished("divide")
  /\ args.a = MkFloat(-3, 2)
  /\ args.b = MkFloat(0, 1)
  /\ ret.kind = "raise"
  /\ ret.msg = "Cannot divide by zero"

\* ----------------------------------------------------------------------
\* The expression s computed with the Calculator: every binary operator is
\* replaced by the call of the corresponding operation on the values of its
\* operands, in precedence order.
\*   expr: term (('+' | '-') term)*     term: atom (('*' | '/') atom)*
\*   atom: literal | '(' expr ')'
\* A literal with a point is a float operand, one without an int operand.
\* ----------------------------------------------------------------------
CalcOperand(s, i) ==
  LET l == StdLiteral(s, i)
      isFloat == \E k \in i..(l[3] - 1) : s[k] = "."
  IN  IF isFloat THEN MkFloat(l[2].n, l[2].d) ELSE MkInt(l[2].n)

\* the operation named by the operator o applied to two outcomes
CalcApply(o, x, y) ==
  IF x.kind # "return" THEN x
  ELSE IF y.kind # "return" THEN y
  ELSE CASE o = "+" -> add(x.val, y.val)
         [] o = "-" -> subtract(x.val, y.val)
         [] o = "*" -> multiply(x.val, y.val)
         [] o = "/" -> divide(x.val, y.val)

CalcOk(out, pos) == [ok |-> TRUE, out |-> out, pos |-> pos]
CalcFail == [ok |-> FALSE, out |-> NoOutcome, pos |-> 0]

RECURSIVE Calc(_, _, _, _)
Calc(rule, s, p, left) ==
  CASE rule = "atom" ->
         IF At(s, p) = "("
         THEN LET e == Calc("expr", s, p + 1, left)
              IN  IF e.ok /\ At(s, e.pos) = ")" THEN CalcOk(e.out, e.pos + 1)
                  ELSE CalcFail
         ELSE LET l == StdLiteral(s, p)
              IN  IF l[1] THEN CalcOk(Return(CalcOperand(s, p)), l[3])
                  ELSE CalcFail
    [] rule = "term_rest" ->
         IF At(s, p) \in {"*", "/"}
         THEN LET f == Calc("atom", s, p + 1, left)
              IN  IF f.ok
                  THEN Calc("term_rest", s, f.pos, CalcApply(s[p], left, f.out))
                  ELSE CalcFail
         ELSE CalcOk(left, p)
    [] rule = "term" ->
         LET f == Calc("atom", s, p, left)
         IN  IF f.ok THEN Calc("term_rest", s, f.pos, f.out) ELSE CalcFail
    [] rule = "expr_rest" ->
         IF At(s, p) \in {"+", "-"}
         THEN LET t == Calc("term", s, p + 1, left)
              IN  IF t.ok
                  THEN Calc("expr_rest", s, t.pos, CalcApply(s[p], left, t.out))
                  ELSE CalcFail
         ELSE CalcOk(left, p)
    [] rule = "expr" ->
         LET t == Calc("term", s, p, left)
         IN  IF t.ok THEN Calc("expr_rest", s, t.pos, t.out) ELSE CalcFail

\* ok iff s is an expression of literals, + - * / and parentheses
CalcRead(s) ==
  LET e == Calc("expr", s, 1, NoOutcome)
  IN  IF e.ok /\ e.pos = Len(s) + 1 THEN e ELSE CalcFail

\* C11: for every expression of numeric literals and + - * / only,
\* calculate_expression and the Calculator operations applied to the same
\* operands in precedence order agree: when the Calculator returns a number,
\* calculate_expression returns that number, and when a Calculator operation
\* fails (a divisor is zero, ValueError) calculate_expression fails with
\* ValueError too.
C11_AgreesWithCalculator ==
  Finished("calculate_expression") =>
    LET c == CalcRead(WithoutSpaces(Input))
    IN  /\ (c.ok /\ c.out.kind = "return") => ret = c.out
        /\ (c.ok /\ c.out.kind = "raise") =>
              /\ c.out.exc = "ValueError"
              /\ ret.kind = "raise"
              /\ ret.exc = "ValueError"

\* "3-2/2": the Calculator gives subtract(3, divide(2, 2)) = 2.0
C11_Witness ==
  /\ Finished("calculate_expression")
  /\ Input = << "3", "-", "2", "/", "2" >>
  /\ CalcRead(Input).out = Return(MkFloat(2, 1))
  /\ ret = Return(MkFloat(2, 1))

\* a divisor is zero: both fail
C11_WitnessZero ==
  /\ Finished("calculate_expression")
  /\ Input = << "1", "/", "0" >>
  /\ CalcRead(Input).out.kind = "raise"
  /\ ret.kind = "raise"

\* ======================================================================
\* User management: the table todo_user (models.py), UserService
\* (services.py), UserSerializer (serializers.py), UserController (views.py)
\* ======================================================================

\* ids handed out by the table are 1..MaxId
MaxId == 2

\* the values of the text fields are character sequences
UsernameValues ==
  { << "a", "b" >>, << "a", "b", "c" >>, << "_", "$", "c" >>, << "a", "$", "c" >> }
EmailValues == { << "a", "@", "x" >>, << "b", "@", "x" >> }
FirstName == << "F" >>
LastName == << "L" >>

\* a dict of user fields: keys is the set of keys present; a field whose key
\* is absent holds the value it has here
NoData ==
  [keys |-> {}, id |-> 0, username |-> <<>>, email |-> <<>>, first_name |-> <<>>,
   last_name |-> <<>>, is_active |-> TRUE, password |-> "", confirm_password |-> ""]

Has(d, k) == k \in d.keys
With(d, k, v) == [d EXCEPT !.keys = @ \cup {k}, ![k] = v]
Without(d, k) == [d EXCEPT !.keys = @ \ {k}, ![k] = NoData[k]]

\* not user_data[field], for the text fields
IsEmpty(d, k) == d[k] = <<>>

\* ---- models.py: a row of todo_user
NoRow ==
  [id |-> 0, username |-> <<>>, email |-> <<>>, first_name |-> <<>>,
   last_name |-> <<>>, is_active |-> TRUE, date_joined |-> 0, last_login |-> 0]

ModelFields == {"username", "email", "first_name", "last_name", "is_active"}

\* the fields of an instance that setattr can reach from the dicts here
AttrFields == ModelFields \cup {"id"}

\* variant: the columns are not declared unique
NoConstraint(rows, row) == FALSE

\* unique=True on username and on email, and the primary key
UniqueViolation(rows, row) ==
  \E r \in rows : r.id # row.id /\ (r.username = row.username \/ r.email = row.email)

Stored(d, id) == \E r \in d.rows : r.id = id
RowOf(d, id) == CHOOSE r \in d.rows : r.id = id

\* outcomes of a call: a returned user, None, bool, list, dict or API
\* response, or a raised exception
NoRet ==
  [kind |-> "none", tag |-> "", user |-> NoRow, flag |-> FALSE, list |-> <<>>,
   total_users |-> 0, active_users |-> 0, inactive_users |-> 0,
   status |-> 0, success |-> FALSE, exc |-> "", msg |-> ""]

RetUser(r) == [NoRet EXCEPT !.kind = "return", !.tag = "user", !.user = r]
RetNone == [NoRet EXCEPT !.kind = "return", !.tag = "None"]
RetBool(b) == [NoRet EXCEPT !.kind = "return", !.tag = "bool", !.flag = b]
RetList(l) == [NoRet EXCEPT !.kind = "return", !.tag = "list", !.list = l]
RetDict(t, a, i) ==
  [NoRet EXCEPT !.kind = "return", !.tag = "dict", !.total_users = t,
                !.active_users = a, !.inactive_users = i]
Raised(e, m) == [NoRet EXCEPT !.kind = "raise", !.exc = e, !.msg = m]

\* a call's effect: the table afterwards and the outcome; a raised exception
\* leaves the table as it was (transaction.atomic)
Effect(d, out) == [db |-> d, out |-> out]

\* CustomUser.objects.create(**data): the next id of the sequence,
\* is_active default True, date_joined default timezone.now, last_login NULL
\* (0)
objects_create(d, data) ==
  LET row == [id |-> d.seq + 1,
              username |-> data.username, email |-> data.email,
              first_name |-> data.first_name, last_name |-> data.last_name,
              is_active |-> data.is_active, date_joined |-> d.clock + 1,
              last_login |-> 0]
  IN  IF UniqueViolation(d.rows, row)
      THEN Effect(d, Raised("IntegrityError", "UNIQUE constraint failed"))
      ELSE Effect([rows |-> d.rows \cup {row}, seq |-> d.seq + 1,
                   clock |-> d.clock + 1], RetUser(row))

Max(a, b) == IF a > b THEN a ELSE b

\* instance.save(): UPDATE of the row with the instance's id, INSERT when
\* there is none
save(d, row) ==
  IF UniqueViolation(d.rows, row)
  THEN Effect(d, Raised("IntegrityError", "UNIQUE constraint failed"))
  ELSE Effect([d EXCEPT !.rows = {r \in @ : r.id # row.id} \cup {row},
                        !.seq = Max(@, row.id)], RetUser(row))

\* variant: every row is deleted
DeleteAll(d, row) == [d EXCEPT !.rows = {}]

\* instance.delete()
delete(d, row) == [d EXCEPT !.rows = {r \in @ : r.id # row.id}]

\* queryset.order_by('-date_joined') as a list; rows with equal date_joined
\* come in an order the database chooses
RECURSIVE OrderByDateJoinedDesc(_)
OrderByDateJoinedDesc(rows) ==
  IF rows = {} THEN <<>>
  ELSE LET first == CHOOSE r \in rows :
                      \A o \in rows : o.date_joined <= r.date_joined
       IN  << first >> \o OrderByDateJoinedDesc(rows \ {first})

\* ---- services.py: UserService
\* variant: the filter on is_active is left out
GetAllUnfiltered(d, active_only) == RetList(OrderByDateJoinedDesc(d.rows))

get_all_users(d, active_only) ==
  LET queryset == IF active_only THEN {r \in d.rows : r.is_active} ELSE d.rows
  IN  RetList(OrderByDateJoinedDesc(queryset))

get_user_by_id(d, user_id) ==
  IF Stored(d, user_id) THEN RetUser(RowOf(d, user_id)) ELSE RetNone

required_fields == << "username", "email", "first_name", "last_name" >>

\* the first required field that is absent or empty, 0 if there is none
FirstMissing(user_data) ==
  IF \E i \in 1..Len(required_fields) :
       ~Has(user_data, required_fields[i]) \/ IsEmpty(user_data, required_fields[i])
  THEN CHOOSE i \in 1..Len(required_fields) :
         /\ ~Has(user_data, required_fields[i]) \/ IsEmpty(user_data, required_fields[i])
         /\ \A j \in 1..(i - 1) :
              Has(user_data, required_fields[j]) /\ ~IsEmpty(user_data, required_fields[j])
  ELSE 0

RequiredMessage(field) ==
  CASE field = "username" -> "username is required"
    [] field = "email" -> "email is required"
    [] field = "first_name" -> "first_name is required"
    [] field = "last_name" -> "last_name is required"

\* variant: only the active users are looked at
UsernameExistsActive(d, username) ==
  \E r \in d.rows : r.username = username /\ r.is_active

UsernameExists(d, username) == \E r \in d.rows : r.username = username

EmailExists(d, email) == \E r \in d.rows : r.email = email

\* clean_data: the dict without password and confirm_password
CleanData(user_data) == Without(Without(user_data, "password"), "confirm_password")

create_user(d, user_data) ==
  IF FirstMissing(user_data) # 0
  THEN Effect(d, Raised("ValidationError",
                        RequiredMessage(required_fields[FirstMissing(user_data)])))
  ELSE IF UsernameExists(d, user_data.username)
  THEN Effect(d, Raised("ValidationError", "Username already exists"))
  ELSE IF EmailExists(d, user_data.email)
  THEN Effect(d, Raised("ValidationError", "Email already exists"))
  ELSE objects_create(d, CleanData(user_data))

\* for field, value in clean_data.items(): setattr(user, field, value)
SetAttrs(user, clean_data) ==
  [f \in DOMAIN user |->
     IF f \in AttrFields /\ Has(clean_data, f) THEN clean_data[f] ELSE user[f]]

update_user(d, user_id, user_data) ==
  IF ~Stored(d, user_id) THEN Effect(d, RetNone)
  ELSE LET user == RowOf(d, user_id)
       IN  IF /\ Has(user_data, "username")
              /\ user_data.username # user.username
              /\ UsernameExists(d, user_data.username)
           THEN Effect(d, Raised("ValidationError", "Username already exists"))
           ELSE IF /\ Has(user_data, "email")
                   /\ user_data.email # user.email
                   /\ EmailExists(d, user_data.email)
           THEN Effect(d, Raised("ValidationError", "Email already exists"))
           ELSE save(d, SetAttrs(user, CleanData(user_data)))

\* variant: the result of the lookup is not tested
DeleteUnchecked(d, user_id) ==
  Effect([d EXCEPT !.rows = {r \in @ : r.id # user_id}], RetBool(TRUE))

delete_user(d, user_id) ==
  IF ~Stored(d, user_id) THEN Effect(d, RetBool(FALSE))
  ELSE Effect(delete(d, RowOf(d, user_id)), RetBool(TRUE))

\* variant: is_active is toggled
DeactivateToggle(d, user_id) ==
  IF ~Stored(d, user_id) THEN Effect(d, RetNone)
  ELSE save(d, [RowOf(d, user_id) EXCEPT !.is_active = ~@])

deactivate_user(d, user_id) ==
  IF ~Stored(d, user_id) THEN Effect(d, RetNone)
  ELSE save(d, [RowOf(d, user_id) EXCEPT !.is_active = FALSE])

activate_user(d, user_id) ==
  IF ~Stored(d, user_id) THEN Effect(d, RetNone)
  ELSE save(d, [RowOf(d, user_id) EXCEPT !.is_active = TRUE])

\* variant: inactive_users is computed from the active users only
StatisticsOfActive(d) ==
  LET total_users == Cardinality(d.rows)
      active_users == Cardinality({r \in d.rows : r.is_active})
      inactive_users == active_users - active_users
  IN  RetDict(total_users, active_users, inactive_users)

get_user_statistics(d) ==
  LET total_users == Cardinality(d.rows)
      active_users == Cardinality({r \in d.rows : r.is_active})
      inactive_users == total_users - active_users
  IN  RetDict(total_users, active_users, inactive_users)

\* str.lower() on the letters of the model
Lower(c) ==
  CASE c = "A" -> "a" [] c = "B" -> "b" [] c = "C" -> "c" [] c = "F" -> "f"
    [] c = "L" -> "l" [] c = "X" -> "x" [] OTHER -> c

LowerAll(s) == [i \in 1..Len(s) |-> Lower(s[i])]

\* field__icontains=query: query occurs in the value, letter case ignored
icontains(value, query) ==
  \E i \in 0..(Len(value) - Len(query)) :
    SubSeq(LowerAll(value), i + 1, i + Len(query)) = LowerAll(query)

\* variant: without .filter(is_active=True)
SearchInactiveToo(d, query) ==
  RetList(OrderByDateJoinedDesc(
    {r \in d.rows : \/ icontains(r.username, query) \/ icontains(r.email, query)
                    \/ icontains(r.first_name, query)
                    \/ icontains(r.last_name, query)}))

search_users(d, query) ==
  LET matching == {r \in d.rows :
                     \/ icontains(r.username, query) \/ icontains(r.email, query)
                     \/ icontains(r.first_name, query)
                     \/ icontains(r.last_name, query)}
  IN  RetList(OrderByDateJoinedDesc({r \in matching : r.is_active}))

\* timezone.now() at a login: every time of a login is the one value Now
\* (last_login is NULL, 0, or a time; the times are not told apart)
Now == 1

\* user.last_login = timezone.now(); user.save()
update_last_login(d, user_id) ==
  IF ~Stored(d, user_id) THEN Effect(d, RetNone)
  ELSE save(d, [RowOf(d, user_id) EXCEPT !.last_login = Now])

\* ---- serializers.py: UserSerializer
AlnumChars == {"a", "b", "c", "0", "1"}

\* str.isalnum(): at least one character and every character a letter or digit
isalnum(value) == value # <<>> /\ \A i \in 1..Len(value) : value[i] \in AlnumChars

\* validate_username: TRUE iff it raises serializers.ValidationError
validate_username(value) ==
  \/ Len(value) < 3
  \/ ~isalnum(value) /\ ~(\E i \in 1..Len(value) : value[i] = "_")

\* validate_email: TRUE iff it raises; instance is NoRow when there is none
validate_email(d, instance, value) ==
  IF instance # NoRow /\ instance.email # value THEN EmailExists(d, value)
  ELSE instance = NoRow /\ EmailExists(d, value)

\* validate: TRUE iff it raises
validate(attrs) ==
  LET password == Has(attrs, "password") /\ attrs.password # ""
      confirm_password == Has(attrs, "confirm_password") /\ attrs.confirm_password # ""
  IN  \/ password /\ confirm_password /\ attrs.password # attrs.confirm_password
      \/ password /\ ~confirm_password

\* the UniqueValidator of a unique model field: another row holds the value
NotUnique(d, instance, field, value) ==
  \E r \in d.rows : r[field] = value /\ r.id # instance.id

\* the fields of the data that fail field validation: a required field
\* absent (unless partial), a blank text, a value held by another row, and
\* the validate_<field> methods, which run on a value that passed the rest
FieldErrors(d, instance, data, partial) ==
  {f \in {"username", "email", "first_name", "last_name"} :
     IF ~Has(data, f) THEN ~partial
     ELSE \/ data[f] = <<>>
          \/ f \in {"username", "email"} /\ NotUnique(d, instance, f, data[f])
          \/ f = "username" /\ validate_username(data.username)
          \/ f = "email" /\ validate_email(d, instance, data.email)}
    \cup {f \in {"password", "confirm_password"} : Has(data, f) /\ data[f] = ""}

\* serializer.is_valid()
is_valid(d, instance, data, partial) ==
  /\ FieldErrors(d, instance, data, partial) = {}
  /\ ~validate(data)

\* serializer.validated_data: the writable fields given (id is read-only)
validated_data(data) == Without(data, "id")

\* ---- views.py: UserController; every handler returns a Response
HTTP_200_OK == 200
HTTP_201_CREATED == 201
HTTP_204_NO_CONTENT == 204
HTTP_400_BAD_REQUEST == 400
HTTP_404_NOT_FOUND == 404
HTTP_500_INTERNAL_SERVER_ERROR == 500

Response(success, status, user) ==
  [NoRet EXCEPT !.kind = "return", !.tag = "response", !.success = success,
                !.status = status, !.user = user]

StatsResponse(stats) ==
  [stats EXCEPT !.tag = "response", !.success = TRUE, !.status = HTTP_200_OK]

NotFound == Response(FALSE, HTTP_404_NOT_FOUND, NoRow)

\* the except clauses of a handler around the effect e of a service call:
\* ValidationError gives 400, any other exception 500
Handled(e, ok_status) ==
  IF e.out.kind = "raise"
  THEN Effect(e.db, Response(FALSE,
                             IF e.out.exc = "ValidationError"
                             THEN HTTP_400_BAD_REQUEST
                             ELSE HTTP_500_INTERNAL_SERVER_ERROR, NoRow))
  ELSE Effect(e.db, Response(TRUE, ok_status, e.out.user))

\* variant: the data go to the service without serializer.is_valid()
CreateUnvalidated(d, data) ==
  Handled(create_user(d, validated_data(data)), HTTP_201_CREATED)

create(d, data) ==
  IF is_valid(d, NoRow, data, FALSE)
  THEN Handled(create_user(d, validated_data(data)), HTTP_201_CREATED)
  ELSE Effect(d, Response(FALSE, HTTP_400_BAD_REQUEST, NoRow))

retrieve(d, pk) ==
  LET user == get_user_by_id(d, pk)
  IN  IF user.tag = "None" THEN Effect(d, NotFound)
      ELSE Effect(d, Response(TRUE, HTTP_200_OK, user.user))

\* update and partial_update differ in the partial flag of the serializer
UpdateHandler(d, pk, data, partial) ==
  LET user == get_user_by_id(d, pk)
  IN  IF user.tag = "None" THEN Effect(d, NotFound)
      ELSE IF is_valid(d, user.user, data, partial)
      THEN Handled(update_user(d, pk, validated_data(data)), HTTP_200_OK)
      ELSE Effect(d, Response(FALSE, HTTP_400_BAD_REQUEST, NoRow))

update(d, pk, data) == UpdateHandler(d, pk, data, FALSE)

partial_update(d, pk, data) == UpdateHandler(d, pk, data, TRUE)

destroy(d, pk) ==
  LET e == delete_user(d, pk)
  IN  IF ~e.out.flag THEN Effect(e.db, NotFound)
      ELSE Effect(e.db, Response(TRUE, HTTP_204_NO_CONTENT, NoRow))

deactivate(d, pk) ==
  LET e == deactivate_user(d, pk)
  IN  IF e.out.tag = "None" THEN Effect(e.db, NotFound)
      ELSE Handled(e, HTTP_200_OK)

activate(d, pk) ==
  LET e == activate_user(d, pk)
  IN  IF e.out.tag = "None" THEN Effect(e.db, NotFound)
      ELSE Handled(e, HTTP_200_OK)

statistics(d) == Effect(d, StatsResponse(get_user_statistics(d)))

\* str.strip() of a query: leading and trailing whitespace removed
RECURSIVE strip(_)
strip(s) ==
  IF s = << >> THEN s
  ELSE IF Head(s) \in {" ", "\t"} THEN strip(Tail(s))
  ELSE IF s[Len(s)] \in {" ", "\t"} THEN strip(SubSeq(s, 1, Len(s) - 1))
  ELSE s

\* request.query_params.get('active', 'true').lower() == 'true'
ActiveOnly(query_params) ==
  IF "active" \in query_params.keys
  THEN query_params.active \in {"true", "True", "TRUE"}
  ELSE TRUE

\* UserListSerializer: the fields of one user in a list response
ListItem(r) ==
  [id |-> r.id, username |-> r.username, email |-> r.email,
   full_name |-> strip(r.first_name \o << " " >> \o r.last_name),
   is_active |-> r.is_active, date_joined |-> r.date_joined]

\* GET /api/users/: the response carries the serialized users as its list
list(d, query_params) ==
  LET active_only == ActiveOnly(query_params)
      search_query == IF "search" \in query_params.keys
                      THEN strip(query_params.search) ELSE << >>
      users == IF search_query # << >> THEN search_users(d, search_query)
               ELSE get_all_users(d, active_only)
  IN  Effect(d, [NoRet EXCEPT
                   !.kind = "return", !.tag = "response", !.success = TRUE,
                   !.status = HTTP_200_OK,
                   !.list = [i \in 1..Len(users.list) |-> ListItem(users.list[i])]])

\* ---- inputs of the calls
\* ids asked for: those the table can hand out and one it never does
UserIds == 1..(MaxId + 1)

\* a complete dict for a new user
BaseData(u, e) ==
  With(With(With(With(NoData, "username", u), "email", e),
            "first_name", FirstName), "last_name", LastName)

\* b with one required field absent or empty, and b with a password and a
\* confirmation
Defects(b) ==
  {Without(b, f) : f \in {"username", "email", "first_name", "last_name"}}
    \cup {With(b, f, <<>>) : f \in {"username", "email", "first_name", "last_name"}}
    \cup {With(With(b, "password", "p"), "confirm_password", c) : c \in {"p", "q"}}

PatchUsernames == { << "a", "b", "c" >>, << "_", "$", "c" >> }

\* the dicts sent to the endpoints create and update
CreateData ==
  {BaseData(u, e) : u \in UsernameValues, e \in EmailValues}
    \cup Defects(BaseData(<< "a", "b", "c" >>, << "a", "@", "x" >>))

\* the dicts passed to UserService.create_user
ServiceData ==
  {BaseData(u, e) : u \in PatchUsernames, e \in EmailValues}
    \cup {With(BaseData(<< "a", "b", "c" >>, e), "is_active", FALSE) :
            e \in EmailValues}
    \cup Defects(BaseData(<< "a", "b", "c" >>, << "a", "@", "x" >>))

\* dicts of some of the fields username, email, is_active and id (<<>> and 0:
\* the key is absent)
Patch(u, e, a, i) ==
  LET d1 == IF u = <<>> THEN NoData ELSE With(NoData, "username", u)
      d2 == IF e = <<>> THEN d1 ELSE With(d1, "email", e)
      d3 == IF a = 0 THEN d2 ELSE With(d2, "is_active", a = 1)
  IN  IF i = 0 THEN d3 ELSE With(d3, "id", i)

Patches ==
  {Patch(u, e, 0, 0) : u \in PatchUsernames \cup {<<>>},
                       e \in EmailValues \cup {<<>>}}
    \cup {Patch(<<>>, <<>>, a, 0) : a \in 1..2}

\* the patches that also carry the key id
IdPatches ==
  {Patch(u, e, 0, i) : u \in PatchUsernames, e \in EmailValues, i \in 1..MaxId}
    \cup {Patch(<<>>, <<>>, 0, i) : i \in 1..MaxId}

\* search queries: letters in both cases, a query no field contains, one in
\* whitespace, the empty one and whitespace only
Queries ==
  { << "b" >>, << "B" >>, << "a", "B" >>, << "f" >>, << "z" >>,
    << " ", "b", " " >>, << >>, << " " >> }

\* the query parameters of a list request
NoParams == [keys |-> {}, active |-> "", search |-> << >>]

QueryParams ==
  {[keys |-> k, active |-> IF "active" \in k THEN a ELSE "",
    search |-> IF "search" \in k THEN q ELSE << >>] :
     k \in SUBSET {"active", "search"}, a \in {"true", "True", "false"},
     q \in {<< "b" >>, << " ", "b", " " >>, << " " >>}}

NoCall ==
  [user_id |-> 0, data |-> NoData, active_only |-> TRUE, query |-> << >>,
   query_params |-> NoParams]

\* ---- state machine of the user management: every step is one whole call
InitUsers ==
  /\ fn = "none"
  /\ args = NoCall
  /\ expression = <<>>
  /\ pc = "idle"
  /\ ret = NoRet
  /\ called = FALSE
  /\ db = EmptyDb
  /\ prev = EmptyDb
  /\ threads = << >>

\* the call fn(a) has run from the table db with the effect e
Called(f, a, e) ==
  /\ pc = "idle"
  /\ e.db.seq <= MaxId
  /\ pc' = "done"
  /\ fn' = f
  /\ args' = a
  /\ prev' = db
  /\ db' = e.db
  /\ ret' = e.out
  /\ UNCHANGED << expression, called, threads >>

GetAllUsers ==
  \E b \in BOOLEAN :
    Called("get_all_users", [NoCall EXCEPT !.active_only = b],
           Effect(db, get_all_users(db, b)))

GetUserById ==
  \E i \in UserIds :
    Called("get_user_by_id", [NoCall EXCEPT !.user_id = i],
           Effect(db, get_user_by_id(db, i)))

CreateUser ==
  \E d \in ServiceData :
    Called("create_user", [NoCall EXCEPT !.data = d], create_user(db, d))

UpdateUser ==
  \E i \in UserIds, d \in Patches \cup IdPatches :
    Called("update_user", [NoCall EXCEPT !.user_id = i, !.data = d],
           update_user(db, i, d))

DeleteUser ==
  \E i \in UserIds :
    Called("delete_user", [NoCall EXCEPT !.user_id = i], delete_user(db, i))

DeactivateUser ==
  \E i \in UserIds :
    Called("deactivate_user", [NoCall EXCEPT !.user_id = i], deactivate_user(db, i))

ActivateUser ==
  \E i \in UserIds :
    Called("activate_user", [NoCall EXCEPT !.user_id = i], activate_user(db, i))

GetUserStatistics ==
  Called("get_user_statistics", NoCall, Effect(db, get_user_statistics(db)))

ApiCreate ==
  \E d \in CreateData :
    Called("create", [NoCall EXCEPT !.data = d], create(db, d))

ApiRetrieve ==
  \E i \in UserIds :
    Called("retrieve", [NoCall EXCEPT !.user_id = i], retrieve(db, i))

ApiUpdate ==
  \E i \in UserIds, d \in CreateData :
    Called("update", [NoCall EXCEPT !.user_id = i, !.data = d], update(db, i, d))

ApiPartialUpdate ==
  \E i \in UserIds, d \in Patches :
    Called("partial_update", [NoCall EXCEPT !.user_id = i, !.data = d],
           partial_update(db, i, d))

ApiDestroy ==
  \E i \in UserIds :
    Called("destroy", [NoCall EXCEPT !.user_id = i], destroy(db, i))

ApiDeactivate ==
  \E i \in UserIds :
    Called("deactivate", [NoCall EXCEPT !.user_id = i], deactivate(db, i))

ApiActivate ==
  \E i \in UserIds :
    Called("activate", [NoCall EXCEPT !.user_id = i], activate(db, i))

ApiStatistics == Called("statistics", NoCall, statistics(db))

SearchUsers ==
  \E q \in Queries :
    Called("search_users", [NoCall EXCEPT !.query = q],
           Effect(db, search_users(db, q)))

UpdateLastLogin ==
  \E i \in UserIds :
    Called("update_last_login", [NoCall EXCEPT !.user_id = i],
           update_last_login(db, i))

ApiList ==
  \E p \in QueryParams :
    Called("list", [NoCall EXCEPT !.query_params = p], list(db, p))

\* the caller has taken the outcome: the record of the call is dropped
NextCall ==
  /\ pc = "done"
  /\ fn # "none"
  /\ pc' = "idle"
  /\ fn' = "none"
  /\ args' = NoCall
  /\ ret' = NoRet
  /\ prev' = db
  /\ UNCHANGED << expression, called, db, threads >>

NextUsers ==
  \/ GetAllUsers
  \/ GetUserById
  \/ CreateUser
  \/ UpdateUser
  \/ DeleteUser
  \/ DeactivateUser
  \/ ActivateUser
  \/ GetUserStatistics
  \/ ApiCreate
  \/ ApiRetrieve
  \/ ApiUpdate
  \/ ApiPartialUpdate
  \/ ApiDestroy
  \/ ApiDeactivate
  \/ ApiActivate
  \/ ApiStatistics
  \/ SearchUsers
  \/ UpdateLastLogin
  \/ ApiList
  \/ NextCall

SpecUsers == InitUsers /\ [][NextUsers]_vars

\* ======================================================================
\* Properties of the user management
\* ======================================================================

\* C12: in every state reachable by calls of UserService (and of the API),
\* no two stored users have the same username and no two the same email.
C12_UniqueUsernameEmail ==
  \A r1, r2 \in db.rows :
    r1 # r2 => /\ r1.id # r2.id
               /\ r1.username # r2.username
               /\ r1.email # r2.email

\* two users are stored and update_user has just tried to write the fields
\* of user 1 over the row of user 2 (data {id: 2}): the table refused
C12_Witness ==
  /\ Finished("update_user")
  /\ Cardinality(db.rows) = 2
  /\ args.user_id = 1
  /\ args.data = Patch(<<>>, <<>>, 0, 2)
  /\ ret.kind = "raise"
  /\ ret.exc = "IntegrityError"

\* C13: create_user raises ValidationError and leaves the stored users as
\* they were when username, email, first_name or last_name is absent or
\* empty in the data, or a stored user holds the username, or a stored user
\* holds the email; otherwise it stores exactly one new user, with the given
\* username and email, and returns it.
Rejectable(d, data) ==
  \/ \E f \in {"username", "email", "first_name", "last_name"} :
       f \notin data.keys \/ data[f] = <<>>
  \/ \E r \in d.rows : r.username = data.username
  \/ \E r \in d.rows : r.email = data.email

C13_CreateUser ==
  Finished("create_user") =>
    IF Rejectable(prev, args.data)
    THEN /\ ret.kind = "raise"
         /\ ret.exc = "ValidationError"
         /\ db.rows = prev.rows
    ELSE /\ ret.kind = "return"
         /\ ret.tag = "user"
         /\ ret.user.username = args.data.username
         /\ ret.user.email = args.data.email
         /\ \A r \in prev.rows : r.id # ret.user.id
         /\ db.rows = prev.rows \cup {ret.user}

\* the email is held by a stored user, the username is new
C13_Witness ==
  /\ Finished("create_user")
  /\ \E r \in prev.rows : r.email = args.data.email
  /\ \A r \in prev.rows : r.username # args.data.username
  /\ ret.kind = "raise"
  /\ ret.msg = "Email already exists"
  /\ db.rows = prev.rows

\* a second user has been stored
C13_WitnessStored ==
  /\ Finished("create_user")
  /\ ret.kind = "return"
  /\ Cardinality(prev.rows) = 1
  /\ Cardinality(db.rows) = 2

\* C14: a call addressed to an id that is not stored reports not-found and
\* changes nothing: get_user_by_id, update_user, activate_user and
\* deactivate_user return None, delete_user returns False, the endpoints
\* retrieve, update, partial_update, destroy, activate and deactivate
\* respond 404 with success False, and the table is as it was.
ReturnNone == {"get_user_by_id", "update_user", "activate_user", "deactivate_user"}
Endpoints ==
  {"retrieve", "update", "partial_update", "destroy", "activate", "deactivate"}

C14_NotFound ==
  (/\ pc = "done"
   /\ fn \in ReturnNone \cup Endpoints \cup {"delete_user"}
   /\ \A r \in prev.rows : r.id # args.user_id) =>
    /\ db = prev
    /\ fn \in ReturnNone => ret.kind = "return" /\ ret.tag = "None"
    /\ fn = "delete_user" => ret.kind = "return" /\ ret.tag = "bool" /\ ~ret.flag
    /\ fn \in Endpoints =>
         /\ ret.kind = "return" /\ ret.tag = "response"
         /\ ret.status = 404
         /\ ~ret.success

\* PUT for an id that was deleted, with a user still stored
C14_Witness ==
  /\ Finished("update")
  /\ prev.rows # {}
  /\ prev.seq >= args.user_id
  /\ \A r \in prev.rows : r.id # args.user_id
  /\ ret.status = 404
  /\ db = prev

\* C15: delete_user(id) on a stored user returns True and removes exactly
\* that user: every other stored user is still stored unchanged, and from
\* the table it leaves get_user_by_id(id) returns None and a second
\* delete_user(id) returns False and changes nothing.
C15_DeleteUser ==
  (Finished("delete_user") /\ \E r \in prev.rows : r.id = args.user_id) =>
    /\ ret.kind = "return" /\ ret.tag = "bool" /\ ret.flag
    /\ db.rows = {r \in prev.rows : r.id # args.user_id}
    /\ get_user_by_id(db, args.user_id).tag = "None"
    /\ delete_user(db, args.user_id) = Effect(db, RetBool(FALSE))

\* one of two stored users has been deleted
C15_Witness ==
  /\ Finished("delete_user")
  /\ Cardinality(prev.rows) = 2
  /\ Cardinality(db.rows) = 1
  /\ ret.flag
  /\ \A r \in db.rows : r.id # args.user_id

\* C16: on a stored user deactivate_user leaves is_active False and
\* activate_user leaves it True, whatever it was before and with every other
\* field as it was, so that a repetition of the call changes nothing more and
\* the last call decides; create_user stores an active user unless the data
\* say is_active False.
Switched(f, value) ==
  (Finished(f) /\ \E r \in prev.rows : r.id = args.user_id) =>
    LET before == CHOOSE r \in prev.rows : r.id = args.user_id
        after == [before EXCEPT !.is_active = value]
    IN  /\ ret.kind = "return" /\ ret.tag = "user"
        /\ ret.user = after
        /\ db.rows = {r \in prev.rows : r.id # args.user_id} \cup {after}

C16_ActivateDeactivate ==
  /\ Switched("deactivate_user", FALSE)
  /\ Switched("activate_user", TRUE)
  /\ Finished("deactivate_user") => deactivate_user(db, args.user_id).db = db
  /\ Finished("activate_user") => activate_user(db, args.user_id).db = db
  /\ (Finished("create_user") /\ ret.kind = "return") =>
       ret.user.is_active =
         ~("is_active" \in args.data.keys /\ ~args.data.is_active)

\* deactivate_user on a user that was inactive already
C16_Witness ==
  /\ Finished("deactivate_user")
  /\ \E r \in prev.rows : r.id = args.user_id /\ ~r.is_active
  /\ ret.tag = "user"
  /\ ~ret.user.is_active
  /\ db.rows = prev.rows

\* a user created with is_active False
C16_WitnessCreated ==
  /\ Finished("create_user")
  /\ ret.kind = "return"
  /\ ~ret.user.is_active

\* C17: after any sequence of calls, get_user_statistics (and the statistics
\* endpoint) reports total_users = the number of stored users, active_users =
\* the number of them with is_active True, inactive_users = the number with
\* is_active False, hence total_users = active_users + inactive_users.
C17_Statistics ==
  (pc = "done" /\ fn \in {"get_user_statistics", "statistics"}) =>
    /\ ret.kind = "return"
    /\ ret.total_users = Cardinality({r.id : r \in db.rows})
    /\ ret.active_users = Cardinality({r.id : r \in {x \in db.rows : x.is_active}})
    /\ ret.inactive_users = Cardinality({r.id : r \in {x \in db.rows : ~x.is_active}})
    /\ ret.total_users = ret.active_users + ret.inactive_users
    /\ db = prev

\* two users, one of them deactivated
C17_Witness ==
  /\ Finished("get_user_statistics")
  /\ ret.total_users = 2
  /\ ret.active_users = 1
  /\ ret.inactive_users = 1

\* C18: get_all_users(active_only=True) returns exactly the stored users
\* with is_active True and get_all_users(active_only=False) exactly all
\* stored users, each once; a user that has just been deactivated is not in
\* the first list and is in the second.
Elements(l) == {l[i] : i \in 1..Len(l)}

C18_GetAllUsers ==
  /\ Finished("get_all_users") =>
       /\ ret.kind = "return" /\ ret.tag = "list"
       /\ Len(ret.list) = Cardinality(Elements(ret.list))
       /\ Elements(ret.list) =
            IF args.active_only THEN {r \in db.rows : r.is_active} ELSE db.rows
       /\ db = prev
  /\ (Finished("deactivate_user") /\ ret.tag = "user") =>
       /\ ret.user \notin Elements(get_all_users(db, TRUE).list)
       /\ ret.user \in Elements(get_all_users(db, FALSE).list)

\* two users, one inactive: the list of active users has one element
C18_Witness ==
  /\ Finished("get_all_users")
  /\ args.active_only
  /\ Cardinality(db.rows) = 2
  /\ Len(ret.list) = 1

\* C19: the create endpoint responds 201 with success True exactly when a
\* user has been stored (one new row, the user of the response), and
\* otherwise responds 400 with success False and leaves the table as it was;
\* no user is stored when a required field is absent or empty, the username
\* or the email is held by a stored user, the username has fewer than 3
\* characters or the password and its confirmation differ.
FailsValidation(d, data) ==
  \/ Rejectable(d, data)
  \/ Len(data.username) < 3
  \/ /\ {"password", "confirm_password"} \subseteq data.keys
     /\ data.password # data.confirm_password

C19_CreateEndpoint ==
  Finished("create") =>
    /\ ret.kind = "return" /\ ret.tag = "response"
    /\ IF db.rows # prev.rows
       THEN /\ ret.status = 201 /\ ret.success
            /\ ret.user \notin prev.rows
            /\ db.rows = prev.rows \cup {ret.user}
       ELSE /\ ret.status = 400 /\ ~ret.success
            /\ db = prev
    /\ FailsValidation(prev, args.data) => db.rows = prev.rows

\* complete data whose password and confirmation differ
C19_Witness ==
  /\ Finished("create")
  /\ ~Rejectable(prev, args.data)
  /\ args.data.password # args.data.confirm_password
  /\ ret.status = 400
  /\ ~ret.success
  /\ db = prev

\* a second user has been stored through the endpoint
C19_WitnessCreated ==
  /\ Finished("create")
  /\ ret.status = 201
  /\ Cardinality(db.rows) = 2

\* C20: a username of fewer than 3 characters, or with a character that is
\* not a letter, a digit or an underscore, is rejected by the serializer: the
\* create endpoint responds 400 and no user with such a username is stored.
WordChars == AlnumChars \cup {"_"}

BadUsername(u) == Len(u) < 3 \/ \E i \in 1..Len(u) : u[i] \notin WordChars

C20_UsernameRule ==
  (Finished("create") /\ "username" \in args.data.keys
     /\ BadUsername(args.data.username)) =>
    /\ ret.status = 400
    /\ ~ret.success
    /\ db = prev

\* ======================================================================
\* Further properties of utils.py
\* ======================================================================

\* int(s) and float(s) of a string: an optional sign and decimal digits (the
\* strings format_calculation_result returns for integers have no other form)
IsIntString(s) ==
  LET u == Unsigned(s)
  IN  u # <<>> /\ \A i \in 1..Len(u) : u[i] \in Digits

IntOfString(s) ==
  LET v == NumeralValue(Unsigned(s))
  IN  IF s[1] = "-" THEN -v ELSE v

\* C22 (as stated): the formatter applied to the string it returned for an
\* integer-valued float returns that same string.
C22_Idempotent ==
  (/\ Finished("format_calculation_result")
   /\ args.result.t = "float"
   /\ IsIntegral(args.result)) =>
    format_calculation_result(StrValue(ret.val), args.decimal_places) = ret

\* C22 (amended): the string returned for an integer-valued float is an
\* integer numeral, and formatting the number it denotes, read as an int or
\* as a float, returns the same string for every decimal_places.
C22_Reformat ==
  (/\ Finished("format_calculation_result")
   /\ args.result.t = "float"
   /\ IsIntegral(args.result)) =>
    /\ ret.kind = "return"
    /\ IsIntString(ret.val)
    /\ IntOfString(ret.val) = args.result.n
    /\ \A p \in 0..MaxPlaces :
         /\ format_calculation_result(MkInt(IntOfString(ret.val)), p) = ret
         /\ format_calculation_result(MkFloat(IntOfString(ret.val), 1), p) = ret

\* format(-3.0, 2) = "-3", and "-3" read back is formatted as "-3"
C22_Witness ==
  /\ Finished("format_calculation_result")
  /\ args.result = MkFloat(-3, 1)
  /\ args.decimal_places = 2
  /\ ret.val = << "-", "3" >>
  /\ format_calculation_result(MkFloat(IntOfString(ret.val), 1), 0) = ret

\* C23: an input of allowed characters that is not a well-formed expression
\* over numeric literals, binary + - * / ^, unary minus and parentheses
\* fails with the invalid-expression error.
C23_OnlyGrammar ==
  (/\ Finished("calculate_expression")
   /\ AllAllowed(WithoutSpaces(Input))
   /\ ~WellFormed(WithoutSpaces(Input))) =>
    /\ ret.kind = "raise"
    /\ ret.exc = "ValueError"
    /\ ret.msg = "Invalid expression: "

\* C29: when the input holds a disallowed character, the call ends with the
\* invalid-characters error at the character check: the caret translation
\* and eval are never reached, whatever else the input holds.
Disallowed(s) == \E i \in 1..Len(s) : s[i] \notin allowed_chars \cup {" "}

C29_ValidationFirst ==
  (fn = "calculate_expression" /\ Disallowed(Input)) =>
    /\ pc \in {"call", "validate", "done"}
    /\ ~called
    /\ pc = "done" =>
         ret = Raise("ValueError", "Invalid characters in expression", "")

\* "1/0+a": without the letter the input would report a division by zero
C29_Witness ==
  /\ Finished("calculate_expression")
  /\ Input = << "1", "/", "0", "+", "a" >>
  /\ calculate_expression(<< "1", "/", "0" >>).msg = "Division by zero"
  /\ ret.msg = "Invalid characters in expression"

\* C30: add, subtract, multiply and power return a number for all operands,
\* divide and modulo whenever b != 0, square_root whenever a >= 0.
PythonNumbers == {"int", "float", "complex"}

C30_OnlyDefinedErrors ==
  (/\ pc = "done"
   /\ \/ fn \in {"add", "subtract", "multiply", "power"}
      \/ fn \in {"divide", "modulo"} /\ args.b.n # 0
      \/ fn = "square_root" /\ args.a.n >= 0) =>
    /\ ret.kind = "return"
    /\ ret.val.t \in PythonNumbers

\* ======================================================================
\* Concurrent calls of the functions of utils.py: every thread runs one call
\* with its own arguments and local variables; the module has no global
\* variable and eval gets fresh globals and locals (line 81).
\* ======================================================================
NThreads == 2

Threads == 1..NThreads

\* the calls the threads make
PureCalls ==
  {[fn |-> "calculate_expression", args |-> [NoArgs EXCEPT !.expression = e]] :
     e \in { << "1", " ", "+", "1" >>, << "1", "/", "0" >>, << "0", "^", "1" >>,
             << "1", "a" >>, << "(", " ", "1" >> }}
    \cup {[fn |-> "format_calculation_result",
           args |-> [NoArgs EXCEPT !.result = x, !.decimal_places = 1]] :
            x \in {MkFloat(3, 2), MkFloat(2, 1)}}
    \cup {[fn |-> f, args |-> [NoArgs EXCEPT !.a = MkInt(1), !.b = y]] :
            f \in {"subtract", "divide", "power"}, y \in {MkInt(0), MkInt(2)}}
    \cup {[fn |-> "square_root", args |-> [NoArgs EXCEPT !.a = MkInt(-1)]]}

\* a thread at the start of the call c
Start(c) ==
  [fn |-> c.fn, args |-> c.args, expression |-> c.args.expression,
   pc |-> "call", ret |-> NoOutcome, called |-> FALSE]

InitPure ==
  /\ threads \in [Threads -> {Start(c) : c \in PureCalls}]
  /\ fn = "none"
  /\ args = NoArgs
  /\ expression = << >>
  /\ pc = "idle"
  /\ ret = NoOutcome
  /\ called = FALSE
  /\ db = EmptyDb
  /\ prev = EmptyDb

\* thread t takes a step to the local state next
Step(t, next) ==
  /\ threads' = [threads EXCEPT ![t] = next]
  /\ UNCHANGED << fn, args, expression, pc, ret, called, db, prev >>

\* variant: expression is a variable shared by the threads
TStripSpacesShared(t) ==
  /\ threads[t].fn = "calculate_expression" /\ threads[t].pc = "call"
  /\ threads' = [u \in Threads |->
                   [threads[u] EXCEPT
                      !.expression = RemoveSpaces(threads[t].expression),
                      !.pc = IF u = t THEN "validate" ELSE @]]
  /\ UNCHANGED << fn, args, expression, pc, ret, called, db, prev >>

\* line 69
TStripSpaces(t) ==
  /\ threads[t].fn = "calculate_expression" /\ threads[t].pc = "call"
  /\ Step(t, [threads[t] EXCEPT !.expression = RemoveSpaces(@), !.pc = "validate"])

\* lines 72-74
TCheckChars(t) ==
  /\ threads[t].fn = "calculate_expression" /\ threads[t].pc = "validate"
  /\ Step(t, IF AllAllowed(threads[t].expression)
             THEN [threads[t] EXCEPT !.pc = "translate"]
             ELSE [threads[t] EXCEPT
                     !.pc = "done",
                     !.ret = Raise("ValueError", "Invalid characters in expression", "")])

\* line 77
TTranslateCaret(t) ==
  /\ threads[t].fn = "calculate_expression" /\ threads[t].pc = "translate"
  /\ Step(t, [threads[t] EXCEPT !.expression = ReplaceCaret(@), !.pc = "eval"])

\* lines 79-86
TEvalExpression(t) ==
  /\ threads[t].fn = "calculate_expression" /\ threads[t].pc = "eval"
  /\ LET r == PyEval(threads[t].expression)
     IN  Step(t, [threads[t] EXCEPT !.ret = HandleEval(r), !.called = r.call,
                                    !.pc = "done"])

TFormatCalculationResult(t) ==
  /\ threads[t].fn = "format_calculation_result" /\ threads[t].pc = "call"
  /\ Step(t, [threads[t] EXCEPT
                !.ret = format_calculation_result(threads[t].args.result,
                                                  threads[t].args.decimal_places),
                !.pc = "done"])

\* one operation of the Calculator
TCalculator(t) ==
  /\ threads[t].fn \in BinaryOps \cup {"square_root"} /\ threads[t].pc = "call"
  /\ Step(t, [threads[t] EXCEPT
                !.ret = Apply(threads[t].fn, threads[t].args.a, threads[t].args.b),
                !.pc = "done"])

NextPure ==
  \/ \E t \in Threads : TStripSpaces(t)
  \/ \E t \in Threads : TCheckChars(t)
  \/ \E t \in Threads : TTranslateCaret(t)
  \/ \E t \in Threads : TEvalExpression(t)
  \/ \E t \in Threads : TFormatCalculationResult(t)
  \/ \E t \in Threads : TCalculator(t)

SpecPure == InitPure /\ [][NextPure]_vars

\* what the call of thread t gives when it runs alone
Alone(c) ==
  CASE c.fn = "calculate_expression" -> calculate_expression(c.args.expression)
    [] c.fn = "format_calculation_result" ->
         format_calculation_result(c.args.result, c.args.decimal_places)
    [] OTHER -> Apply(c.fn, c.args.a, c.args.b)

\* C21: under every interleaving of the steps of concurrent calls, a call
\* that has ended has the outcome it has when run alone on its arguments, a
\* call that has not ended has no outcome yet, the arguments of every call
\* are as they were passed, and no other state is written.
C21_Isolation ==
  /\ \A t \in Threads :
       /\ threads[t].pc = "done" => threads[t].ret = Alone(threads[t])
       /\ threads[t].pc # "done" => threads[t].ret = NoOutcome
       /\ Start(threads[t]) \in {Start(c) : c \in PureCalls}
  /\ << fn, args, expression, pc, ret, called, db, prev >>
       = << "none", NoArgs, << >>, "idle", NoOutcome, FALSE, EmptyDb, EmptyDb >>

\* thread 1 has evaluated "1 + 1" while thread 2 is between the steps of its
\* call on "1/0"
C21_Witness ==
  /\ threads[1].fn = "calculate_expression"
  /\ threads[1].args.expression = << "1", " ", "+", "1" >>
  /\ threads[1].pc = "done"
  /\ threads[1].ret = Return(MkInt(2))
  /\ threads[2].fn = "calculate_expression"
  /\ threads[2].args.expression = << "1", "/", "0" >>
  /\ threads[2].pc = "eval"

\* ======================================================================
\* Further properties of the user management
\* ======================================================================

\* C24: update_user(id, data) on a stored user raises ValidationError and
\* leaves the table as it was when data gives a username, or an email, that
\* a different stored user holds; any other data, the user's own username or
\* email included, is accepted: the call returns the user and the stored
\* user with that id has the given values in the given fields.
HeldByOther(d, user, data) ==
  \/ "username" \in data.keys
       /\ \E r \in d.rows : r.id # user.id /\ r.username = data.username
  \/ "email" \in data.keys
       /\ \E r \in d.rows : r.id # user.id /\ r.email = data.email

C24_UpdateUser ==
  (Finished("update_user") /\ \E r \in prev.rows : r.id = args.user_id) =>
    LET user == CHOOSE r \in prev.rows : r.id = args.user_id
    IN  IF HeldByOther(prev, user, args.data)
        THEN /\ ret.kind = "raise"
             /\ ret.exc = "ValidationError"
             /\ db = prev
        ELSE /\ ret.kind = "return"
             /\ ret.tag = "user"
             /\ \E r \in db.rows :
                  /\ r.id = args.user_id
                  /\ \A f \in args.data.keys \cap ModelFields : r[f] = args.data[f]

\* C25: search_users(query) returns, each once, exactly the stored users
\* that are active and whose username, email, first name or last name
\* contains the query, letter case ignored; the list endpoint called with a
\* search parameter returns those users, none of them inactive, whatever the
\* parameter active says.
ContainsIgnoringCase(value, query) ==
  \E i \in 1..(Len(value) + 1) :
    /\ i + Len(query) - 1 <= Len(value)
    /\ \A k \in 1..Len(query) : Lower(value[i + k - 1]) = Lower(query[k])

Matching(rows, query) ==
  {r \in rows :
     /\ r.is_active
     /\ \E f \in {"username", "email", "first_name", "last_name"} :
          ContainsIgnoringCase(r[f], query)}

Trimmed(s) ==
  LET keep == {i \in 1..Len(s) : s[i] \notin Whitespace}
  IN  IF keep = {} THEN << >>
      ELSE SubSeq(s, CHOOSE i \in keep : \A j \in keep : i <= j,
                     CHOOSE i \in keep : \A j \in keep : j <= i)

C25_Search ==
  /\ Finished("search_users") =>
       /\ ret.kind = "return" /\ ret.tag = "list"
       /\ Len(ret.list) = Cardinality(Elements(ret.list))
       /\ Elements(ret.list) = Matching(db.rows, args.query)
       /\ db = prev
  /\ (/\ Finished("list")
      /\ "search" \in args.query_params.keys
      /\ Trimmed(args.query_params.search) # << >>) =>
       /\ ret.kind = "return" /\ ret.status = 200 /\ ret.success
       /\ \A i \in 1..Len(ret.list) : ret.list[i].is_active
       /\ Len(ret.list) = Cardinality(Elements(ret.list))
       /\ {x.id : x \in Elements(ret.list)} =
            {r.id : r \in Matching(db.rows, Trimmed(args.query_params.search))}
       /\ db = prev

\* the list endpoint with search=b and active=false: of two users whose
\* fields contain "b" the active one is listed, the inactive one is not
C25_Witness ==
  /\ Finished("list")
  /\ args.query_params.keys = {"active", "search"}
  /\ args.query_params.active = "false"
  /\ args.query_params.search = << "b" >>
  /\ \E r \in db.rows : ~r.is_active /\ ContainsIgnoringCase(r.email, << "b" >>)
  /\ Len(ret.list) = 1

\* search_users("B") has found a user by the letter b of the username
C25_WitnessCase ==
  /\ Finished("search_users")
  /\ args.query = << "B" >>
  /\ Len(ret.list) = 1
  /\ Cardinality(db.rows) = 2

\* C26: update_user, activate_user, deactivate_user and update_last_login
\* called with id i leave every stored user with another id as it was and
\* leave the set of stored ids as it was.
C26_FrameEffect ==
  (/\ pc = "done"
   /\ fn \in {"update_user", "activate_user", "deactivate_user", "update_last_login"}) =>
    /\ \A r \in prev.rows : r.id # args.user_id => r \in db.rows
    /\ {r.id : r \in db.rows} = {r.id : r \in prev.rows}

\* ======================================================================
\* Concurrent calls of UserService: the threads share the table.  A query
\* reads the committed rows; the INSERT of create_user and the commit that
\* ends its transaction are one step, at which the unique constraints are
\* checked against the committed rows.  delete_user, activate_user and
\* deactivate_user take effect in one step.
\* ======================================================================
Idle ==
  [fn |-> "none", data |-> NoData, user_id |-> 0, pc |-> "idle",
   total_users |-> 0, ret |-> NoRet]

\* the dicts of the concurrent create_user calls: equal usernames, equal
\* emails, and one without a username
ConcData ==
  { BaseData(<< "a", "b", "c" >>, << "a", "@", "x" >>),
    BaseData(<< "a", "b", "c" >>, << "b", "@", "x" >>),
    BaseData(<< "_", "$", "c" >>, << "a", "@", "x" >>),
    Without(BaseData(<< "a", "b", "c" >>, << "a", "@", "x" >>), "username") }

InitConc ==
  /\ threads = [t \in Threads |-> Idle]
  /\ fn = "none"
  /\ args = NoCall
  /\ expression = << >>
  /\ pc = "idle"
  /\ ret = NoRet
  /\ called = FALSE
  /\ db = EmptyDb
  /\ prev = EmptyDb

\* thread t goes to the local state next and leaves the table d
Move(t, next, d) ==
  /\ d.seq <= MaxId
  /\ threads' = [threads EXCEPT ![t] = next]
  /\ db' = d
  /\ UNCHANGED << fn, args, expression, pc, ret, called, prev >>

\* create_user, lines 104-112: the required fields, then the query for the
\* username
TCheckUsername(t) ==
  /\ threads[t].pc = "idle"
  /\ \E user_data \in ConcData :
       LET call == [Idle EXCEPT !.fn = "create_user", !.data = user_data]
       IN  Move(t,
                IF FirstMissing(user_data) # 0
                THEN [call EXCEPT
                        !.pc = "done",
                        !.ret = Raised("ValidationError",
                                  RequiredMessage(required_fields[FirstMissing(user_data)]))]
                ELSE IF UsernameExists(db, user_data.username)
                THEN [call EXCEPT
                        !.pc = "done",
                        !.ret = Raised("ValidationError", "Username already exists")]
                ELSE [call EXCEPT !.pc = "check_email"],
                db)

\* create_user, lines 115-116: the query for the email
TCheckEmail(t) ==
  /\ threads[t].fn = "create_user" /\ threads[t].pc = "check_email"
  /\ Move(t,
          IF EmailExists(db, threads[t].data.email)
          THEN [threads[t] EXCEPT
                  !.pc = "done",
                  !.ret = Raised("ValidationError", "Email already exists")]
          ELSE [threads[t] EXCEPT !.pc = "insert"],
          db)

\* create_user, lines 119-125: the INSERT and the end of the transaction
TInsert(t) ==
  /\ threads[t].fn = "create_user" /\ threads[t].pc = "insert"
  /\ LET e == objects_create(db, CleanData(threads[t].data))
     IN  Move(t, [threads[t] EXCEPT !.pc = "done", !.ret = e.out], e.db)

\* get_user_statistics, line 254: the first count
TCountTotal(t) ==
  /\ threads[t].pc = "idle"
  /\ Move(t, [Idle EXCEPT !.fn = "get_user_statistics", !.pc = "count_active",
                          !.total_users = Cardinality(db.rows)],
          db)

\* get_user_statistics, lines 255-263: the second count and the dict
TCountActive(t) ==
  /\ threads[t].fn = "get_user_statistics" /\ threads[t].pc = "count_active"
  /\ LET total_users == threads[t].total_users
         active_users == Cardinality({r \in db.rows : r.is_active})
         inactive_users == total_users - active_users
     IN  Move(t, [threads[t] EXCEPT
                    !.pc = "done",
                    !.ret = RetDict(total_users, active_users, inactive_users)],
              db)

TDeleteUser(t) ==
  /\ threads[t].pc = "idle"
  /\ \E i \in 1..MaxId :
       LET e == delete_user(db, i)
       IN  Move(t, [Idle EXCEPT !.fn = "delete_user", !.user_id = i,
                                !.pc = "done", !.ret = e.out], e.db)

TDeactivateUser(t) ==
  /\ threads[t].pc = "idle"
  /\ \E i \in 1..MaxId :
       LET e == deactivate_user(db, i)
       IN  Move(t, [Idle EXCEPT !.fn = "deactivate_user", !.user_id = i,
                                !.pc = "done", !.ret = e.out], e.db)

TActivateUser(t) ==
  /\ threads[t].pc = "idle"
  /\ \E i \in 1..MaxId :
       LET e == activate_user(db, i)
       IN  Move(t, [Idle EXCEPT !.fn = "activate_user", !.user_id = i,
                                !.pc = "done", !.ret = e.out], e.db)

\* the caller of thread t has taken the outcome
TReturn(t) ==
  /\ threads[t].pc = "done"
  /\ Move(t, Idle, db)

NextConc ==
  \/ \E t \in Threads : TCheckUsername(t)
  \/ \E t \in Threads : TCheckEmail(t)
  \/ \E t \in Threads : TInsert(t)
  \/ \E t \in Threads : TCountTotal(t)
  \/ \E t \in Threads : TCountActive(t)
  \/ \E t \in Threads : TDeleteUser(t)
  \/ \E t \in Threads : TDeactivateUser(t)
  \/ \E t \in Threads : TActivateUser(t)
  \/ \E t \in Threads : TReturn(t)

SpecConc == InitConc /\ [][NextConc]_vars

\* C27: of two create_user calls with the same username, or the same email,
\* that have both ended, at most one has stored its user, no two stored
\* users share the value, and a call that failed has failed with
\* ValidationError("Username already exists") or ("Email already exists").
C27_ConcurrentCreate ==
  \A t, u \in Threads :
    (/\ t # u
     /\ threads[t].fn = "create_user" /\ threads[t].pc = "done"
     /\ threads[u].fn = "create_user" /\ threads[u].pc = "done"
     /\ "username" \in threads[t].data.keys
     /\ "username" \in threads[u].data.keys
     /\ \/ threads[t].data.username = threads[u].data.username
        \/ threads[t].data.email = threads[u].data.email) =>
      /\ Cardinality({r \in db.rows : r.username = threads[t].data.username}) <= 1
      /\ Cardinality({r \in db.rows : r.email = threads[t].data.email}) <= 1
      /\ threads[u].ret.kind = "raise" =>
           /\ threads[u].ret.exc = "ValidationError"
           /\ threads[u].ret.msg \in {"Username already exists", "Email already exists"}

\* C28: the counts get_user_statistics returns satisfy
\* 0 <= inactive_users <= total_users, whatever calls run between its two
\* count queries.
C28_ConsistentStatistics ==
  \A t \in Threads :
    (threads[t].fn = "get_user_statistics" /\ threads[t].pc = "done") =>
      /\ threads[t].ret.inactive_users >= 0
      /\ threads[t].ret.inactive_users <= threads[t].ret.total_users
====
